---- MODULE Spec2Model ----
(***************************************************************************)
(* Model of the HER2 image pipeline of Medx-AI:                            *)
(*   backend/apps/ai/services/image_validator.py  (gating pipeline)        *)
(*   backend/Her2/model_safety.py                 (safe_predict)           *)
(*   backend/apps/ai/services/her2_predictor.py   (predictor, risk score)  *)
(*                                                                         *)
(* Units.  Ratios and ratio thresholds are in percent (0.95 -> 95), the    *)
(* Laplacian variance is in whole units (20.0 -> 20), histogram            *)
(* correlations are in hundredths (0.5 -> 50, -1.0 -> -100), entropies are *)
(* in millionths (2.5 -> 2500000) and probabilities are in ProbUnits-ths.  *)
(* An image is its size, the share (in percent of the pixels) of a minor   *)
(* and a major RGB colour, and the variance of its Laplacian.              *)
(***************************************************************************)
EXTENDS Integers, Sequences, FiniteSets, TLC

VARIABLES REFERENCE_HISTOGRAMS, config, call, ret, prev,
          artifact, model_data, ensemble, scaler, loads, requests,
          patients, cases, users, user_archive, now, tokens, issued,
          predictions, recommendations, documents

vars == <<REFERENCE_HISTOGRAMS, config, call, ret, prev,
          artifact, model_data, ensemble, scaler, loads, requests,
          patients, cases, users, user_archive, now, tokens, issued,
          predictions, recommendations, documents>>

\* the tables of the database
database == <<patients, cases>>

\* the user table, the archive of deleted users, the clock, the number of
\* reset tokens generated so far and the tokens handed to the mailer, in order
accounts == <<users, user_archive, now, tokens, issued>>

\* the tables of the records of a case
records == <<predictions, recommendations, documents>>

(***************************************************************************)
(* Bounds of the model.                                                    *)
(***************************************************************************)
MaxRefs == 2

\* calls of joblib.load in one process
MaxLoads == 2

\* requests that are in flight together
MaxThreads == 2

\* rows ever inserted into the cases table
MaxCases == 3

\* reset tokens generated, rows of the user archive, ticks of the clock
MaxTokens == 2

MaxArchive == 2

MaxTicks == 3

\* rows of the prediction table and of the recommendation table
MaxPredictions == 2

MaxRecommendations == 2

(***************************************************************************)
(* Small helpers.                                                          *)
(***************************************************************************)
Max2(a, b) == IF a >= b THEN a ELSE b

Min2(a, b) == IF a <= b THEN a ELSE b

RECURSIVE SumOver(_, _)
SumOver(f, S) ==
    IF S = {} THEN 0
    ELSE LET x == CHOOSE y \in S : TRUE IN f[x] + SumOver(f, S \ {x})

RECURSIVE ISqrtBits(_, _, _)
ISqrtBits(n, r, bit) ==
    IF bit = 0 THEN r
    ELSE IF (r + bit) * (r + bit) <= n THEN ISqrtBits(n, r + bit, bit \div 2)
         ELSE ISqrtBits(n, r, bit \div 2)

\* floor(sqrt(n)) for 0 <= n < 2^30
ISqrt(n) == ISqrtBits(n, 0, 16384)

(***************************************************************************)
(* Pixels and images.  A PIL pixel is <<r, g, b>>.                         *)
(***************************************************************************)
WHITE == <<255, 255, 255>>
G221  == <<221, 221, 221>>
G220  == <<220, 220, 220>>
BROWN == <<150, 90, 40>>
BLUE  == <<60, 60, 160>>
GREEN == <<0, 200, 0>>
H100  == <<50, 150, 200>>
H101  == <<50, 147, 200>>
H24   == <<200, 176, 80>>
H25   == <<200, 180, 80>>
S30   == <<203, 203, 230>>
S31   == <<202, 202, 230>>
V234  == <<100, 100, 234>>
V235  == <<100, 100, 235>>

Palette == {WHITE, G221, G220, BROWN, BLUE, GREEN, H100, H101, H24, H25,
            S30, S31, V234, V235}

MinorColours == {WHITE, BROWN, GREEN}

MinorShares == {1, 2, 4, 5}

Sizes == {<<99, 100>>, <<100, 99>>, <<100, 100>>, <<100000, 100000>>,
          <<100001, 100>>, <<100, 100001>>}

\* the pixel content of an image: k percent of the pixels have the colour
\* minor, the others the colour major; lap is the variance of the Laplacian
\* of its luminance, which is 0 for a uniform image
Contents ==
    { [minor |-> c, major |-> c, k |-> 0, lap |-> 0] : c \in Palette }
    \cup { c \in [minor : MinorColours, major : Palette, k : MinorShares,
                   lap : {19, 20}] : c.minor # c.major }

Images == { [size |-> s, px |-> c] : s \in Sizes, c \in Contents }

\* load_image_opencv: RGB -> BGR, pixel by pixel
load_image_opencv(pil_img) ==
    [pil_img EXCEPT !.px.minor = <<@[3], @[2], @[1]>>,
                    !.px.major = <<@[3], @[2], @[1]>>]

\* the pixel values that occur in cv_img
PixelValues(cv_img) ==
    {cv_img.px.major} \cup (IF cv_img.px.k > 0 THEN {cv_img.px.minor} ELSE {})

\* np.sum(mask) / total_pixels in percent; mask maps a pixel value to a Boolean
PercentWhere(cv_img, mask) ==
    (IF cv_img.px.k > 0 /\ mask[cv_img.px.minor] THEN cv_img.px.k ELSE 0)
    + (IF mask[cv_img.px.major] THEN 100 - cv_img.px.k ELSE 0)

\* cv2.cvtColor(., COLOR_BGR2GRAY) of one 8-bit pixel (15 bit fixed point)
BGR2GRAY(p) == (p[1] * 3735 + p[2] * 19235 + p[3] * 9798 + 16384) \div 32768

\* cv2.cvtColor(., COLOR_BGR2HSV) of one 8-bit pixel: <<h, s, v>>, h in 0..179
BGR2HSV(p) ==
    LET b == p[1]
        g == p[2]
        r == p[3]
        v == Max2(b, Max2(g, r))
        vmin == Min2(b, Min2(g, r))
        diff == v - vmin
        sdiv == IF v = 0 THEN 0 ELSE (2 * 1044480 + v) \div (2 * v)
        hdiv == IF diff = 0 THEN 0 ELSE (2 * 737280 + 6 * diff) \div (12 * diff)
        s == (diff * sdiv + 2048) \div 4096
        h0 == IF v = r THEN g - b
              ELSE IF v = g THEN b - r + 2 * diff
              ELSE r - g + 4 * diff
        h1 == (h0 * hdiv + 2048) \div 4096
    IN  <<IF h1 < 0 THEN h1 + 180 ELSE h1, s, v>>

(***************************************************************************)
(* The gates of image_validator.py.  Each returns (is_rejected, reason);   *)
(* a reason is <<text, measured value, threshold>>, None when accepted.    *)
(***************************************************************************)
None == <<"None">>

\* mutant: a cutoff of 230 instead of 220
IsWhitePixel_Cutoff230(p) == BGR2GRAY(p) > 230

IsWhitePixel(p) == BGR2GRAY(p) > 220

check_whitespace(cv_img, threshold) ==
    LET white == [p \in PixelValues(cv_img) |-> IsWhitePixel(p)]
        ratio == PercentWhere(cv_img, white)
    IN  IF ratio > threshold
        THEN [rejected |-> TRUE, reason |-> <<"Too much whitespace", ratio, threshold>>]
        ELSE [rejected |-> FALSE, reason |-> None]

check_blur(cv_img, threshold) ==
    LET variance == cv_img.px.lap
    IN  IF variance < threshold
        THEN [rejected |-> TRUE, reason |-> <<"Image is blurry", variance, threshold>>]
        ELSE [rejected |-> FALSE, reason |-> None]

\* mutant: the hematoxylin band starts at hue 100 inclusive
IsStainPixel_HemaFrom100(p) ==
    LET hsv == BGR2HSV(p)
        h == hsv[1]
    IN  (hsv[2] > 30 /\ hsv[3] < 235) /\ (((h >= 100) /\ (h < 170)) \/ ((h < 25) \/ (h > 160)))

\* mutant: the hue masks are left out of the combination
IsStainPixel_AnyHue(p) ==
    LET hsv == BGR2HSV(p)
    IN  hsv[2] > 30 /\ hsv[3] < 235

IsStainPixel(p) ==
    LET hsv == BGR2HSV(p)
        s_verify == hsv[2] > 30
        v_verify == hsv[3] < 235
        valid_color_mask == s_verify /\ v_verify
        h == hsv[1]
        mask_hema == (h > 100) /\ (h < 170)
        mask_dab == (h < 25) \/ (h > 160)
    IN  valid_color_mask /\ (mask_hema \/ mask_dab)

check_stain_profile(cv_img, min_stain_coverage) ==
    LET stain_pixels == [p \in PixelValues(cv_img) |-> IsStainPixel(p)]
        ratio == PercentWhere(cv_img, stain_pixels)
    IN  IF ratio < min_stain_coverage
        THEN [rejected |-> TRUE, reason |-> <<"No stain detected", ratio, min_stain_coverage>>]
        ELSE [rejected |-> FALSE, reason |-> None]

(***************************************************************************)
(* The novelty gate.  A histogram maps a bin <<h \div 6, s \div 8,          *)
(* v \div 8>> of the 30x32x32 HSV grid to the percent of the pixels in it  *)
(* (absent bins hold 0).  cv2.normalize only rescales a histogram by a     *)
(* positive factor, which the correlation does not see.                    *)
(***************************************************************************)
HistBins == 30 * 32 * 32

BinOf(p) == LET hsv == BGR2HSV(p) IN <<hsv[1] \div 6, hsv[2] \div 8, hsv[3] \div 8>>

compute_histogram(cv_img) ==
    LET present == PixelValues(cv_img)
        InBin(bn) == PercentWhere(cv_img, [p \in present |-> BinOf(p) = bn])
    IN  [bn \in {BinOf(p) : p \in present} |-> InBin(bn)]

\* cv2.compareHist(h1, h2, HISTCMP_CORREL) in hundredths, rounded down:
\*   (s12 - s1*s2/N) / sqrt((s11 - s1*s1/N) * (s22 - s2*s2/N)),
\* and 1 when the denominator vanishes
compareHist(h1, h2) ==
    LET sq1 == [bn \in DOMAIN h1 |-> h1[bn] * h1[bn]]
        sq2 == [bn \in DOMAIN h2 |-> h2[bn] * h2[bn]]
        both == DOMAIN h1 \cap DOMAIN h2
        pr == [bn \in both |-> h1[bn] * h2[bn]]
        s1 == SumOver(h1, DOMAIN h1)
        s2 == SumOver(h2, DOMAIN h2)
        num == HistBins * SumOver(pr, both) - s1 * s2
        d1 == HistBins * SumOver(sq1, DOMAIN h1) - s1 * s1
        d2 == HistBins * SumOver(sq2, DOMAIN h2) - s2 * s2
        denom == (ISqrt(d1) * ISqrt(d2)) \div 100
    IN  IF denom = 0 THEN 100 ELSE Min2(100, num \div denom)

NoReferences == [loaded |-> FALSE, hists |-> <<>>]

\* mutant: the loop keeps the last score instead of the greatest
RECURSIVE MaxScoreLoop_LastScore(_, _, _, _)
MaxScoreLoop_LastScore(target_hist, refs, i, max_score) ==
    IF i > Len(refs) THEN max_score
    ELSE MaxScoreLoop_LastScore(target_hist, refs, i + 1, compareHist(target_hist, refs[i]))

RECURSIVE MaxScoreLoop(_, _, _, _)
MaxScoreLoop(target_hist, refs, i, max_score) ==
    IF i > Len(refs) THEN max_score
    ELSE LET score == compareHist(target_hist, refs[i])
         IN  MaxScoreLoop(target_hist, refs, i + 1,
                          IF score > max_score THEN score ELSE max_score)

check_histogram_similarity(cv_img, threshold) ==
    IF ~REFERENCE_HISTOGRAMS.loaded \/ Len(REFERENCE_HISTOGRAMS.hists) = 0
    THEN [rejected |-> FALSE, reason |-> None]
    ELSE LET target_hist == compute_histogram(cv_img)
             max_score == MaxScoreLoop(target_hist, REFERENCE_HISTOGRAMS.hists, 1, -100)
         IN  IF max_score < threshold
             THEN [rejected |-> TRUE,
                   reason |-> <<"Image content does not match training data",
                                max_score, threshold>>]
             ELSE [rejected |-> FALSE, reason |-> None]

(***************************************************************************)
(* MedicalImageValidator.                                                  *)
(***************************************************************************)
DEFAULT_CONFIG ==
    [whitespace_thresh |-> 95, blur_thresh |-> 20, stain_thresh |-> 2,
     hist_thresh |-> 50, entropy_thresh |-> 2500000]

MIN_WIDTH == 100
MIN_HEIGHT == 100
MAX_WIDTH == 100000
MAX_HEIGHT == 100000

\* {**base, **over}
MergeDict(base, over) ==
    [key \in DOMAIN base \cup DOMAIN over |->
        IF key \in DOMAIN over THEN over[key] ELSE base[key]]

Rejected(reason, checks) ==
    [is_valid |-> FALSE, status |-> "rejected", reason |-> reason,
     confidence |-> 0, checks |-> checks]

Valid(checks) ==
    [is_valid |-> TRUE, status |-> "valid", reason |-> None,
     confidence |-> 1, checks |-> checks]

Check(name, res) == [name |-> name, passed |-> ~res.rejected, reason |-> res.reason]

\* mutant: the stain gate runs before the blur gate
GatesAfterDimensions_StainBeforeBlur(cv_img, cfg, checks1) ==
    LET ws == check_whitespace(cv_img, cfg.whitespace_thresh)
        checks2 == Append(checks1, Check("whitespace", ws))
    IN  IF ws.rejected THEN Rejected(ws.reason, checks2)
        ELSE
    LET stain == check_stain_profile(cv_img, cfg.stain_thresh)
        checks3 == Append(checks2, Check("stain_profile", stain))
    IN  IF stain.rejected THEN Rejected(stain.reason, checks3)
        ELSE
    LET blur == check_blur(cv_img, cfg.blur_thresh)
        checks4 == Append(checks3, Check("blur", blur))
    IN  IF blur.rejected THEN Rejected(blur.reason, checks4)
        ELSE
    LET ood == check_histogram_similarity(cv_img, cfg.hist_thresh)
        checks5 == Append(checks4, Check("histogram_similarity", ood))
    IN  IF ood.rejected THEN Rejected(ood.reason, checks5)
        ELSE Valid(checks5)

\* steps 2 to 5 of validate and of validate_pil_image, which are the same text
GatesAfterDimensions(cv_img, cfg, checks1) ==
    LET ws == check_whitespace(cv_img, cfg.whitespace_thresh)
        checks2 == Append(checks1, Check("whitespace", ws))
    IN  IF ws.rejected THEN Rejected(ws.reason, checks2)
        ELSE
    LET blur == check_blur(cv_img, cfg.blur_thresh)
        checks3 == Append(checks2, Check("blur", blur))
    IN  IF blur.rejected THEN Rejected(blur.reason, checks3)
        ELSE
    LET stain == check_stain_profile(cv_img, cfg.stain_thresh)
        checks4 == Append(checks3, Check("stain_profile", stain))
    IN  IF stain.rejected THEN Rejected(stain.reason, checks4)
        ELSE
    LET ood == check_histogram_similarity(cv_img, cfg.hist_thresh)
        checks5 == Append(checks4, Check("histogram_similarity", ood))
    IN  IF ood.rejected THEN Rejected(ood.reason, checks5)
        ELSE Valid(checks5)

\* mutant: the except clause of validate returns no reason
validate_NoReason(file, over) ==
    LET cfg == MergeDict(config, over)
        checks == <<>>
    IN  IF ~file.decodable
        THEN Rejected(None, checks)
        ELSE
    LET pil_img == file.image
        cv_img == load_image_opencv(pil_img)
        width == pil_img.size[1]
        height == pil_img.size[2]
    IN  IF width < MIN_WIDTH \/ height < MIN_HEIGHT
        THEN Rejected(<<"Image too small", width, height>>, checks)
        ELSE IF width > MAX_WIDTH \/ height > MAX_HEIGHT
        THEN Rejected(<<"Image too large", width, height>>, checks)
        ELSE GatesAfterDimensions(cv_img, cfg,
                 Append(checks, [name |-> "dimensions", passed |-> TRUE,
                                 value |-> <<width, height>>]))

\* MedicalImageValidator.validate(image_path, config); file is what the path holds
validate(file, over) ==
    LET cfg == MergeDict(config, over)
        checks == <<>>
    IN  IF ~file.decodable
        THEN Rejected(<<"Failed to process image", "cannot identify image file">>, checks)
        ELSE
    LET pil_img == file.image
        cv_img == load_image_opencv(pil_img)
        width == pil_img.size[1]
        height == pil_img.size[2]
    IN  IF width < MIN_WIDTH \/ height < MIN_HEIGHT
        THEN Rejected(<<"Image too small", width, height>>, checks)
        ELSE IF width > MAX_WIDTH \/ height > MAX_HEIGHT
        THEN Rejected(<<"Image too large", width, height>>, checks)
        ELSE GatesAfterDimensions(cv_img, cfg,
                 Append(checks, [name |-> "dimensions", passed |-> TRUE,
                                 value |-> <<width, height>>]))

\* MedicalImageValidator.validate_pil_image(pil_img, config)
validate_pil_image(pil_img, over) ==
    LET cfg == MergeDict(config, over)
        checks == <<>>
        cv_img == load_image_opencv(pil_img)
        width == pil_img.size[1]
        height == pil_img.size[2]
    IN  IF width < MIN_WIDTH \/ height < MIN_HEIGHT
        THEN Rejected(<<"Image too small", width, height>>, checks)
        ELSE GatesAfterDimensions(cv_img, cfg,
                 Append(checks, [name |-> "dimensions", passed |-> TRUE,
                                 value |-> <<width, height>>]))

(***************************************************************************)
(* Probabilities, entropy and the risk score (her2_predictor.py).          *)
(*                                                                         *)
(* A probability is a number of ProbUnits-ths.  EntropyTerms[k + 1] is     *)
(* -p * ln(p + 1e-10) for p = k / ProbUnits, in millionths, rounded (the   *)
(* term of p = 1 is -1e-10, which rounds to 0).  A risk score is in        *)
(* ProbUnits-ths of a point.                                               *)
(***************************************************************************)
EntropyTerms == <<0, 230259, 321888, 361192, 366516, 346574, 306495, 249672,
                  178515, 94824, 0>>

ProbUnits == Len(EntropyTerms) - 1

ProbVectors ==
    { pv \in [1..4 -> 0..ProbUnits] : pv[1] + pv[2] + pv[3] + pv[4] = ProbUnits }

\* -np.sum(probs * np.log(probs + epsilon))
calculate_entropy(probs) ==
    LET term == [i \in DOMAIN probs |-> EntropyTerms[probs[i] + 1]]
    IN  SumOver(term, DOMAIN probs)

\* np.argmax: the first index of the greatest entry
argmax(probs) ==
    CHOOSE i \in DOMAIN probs :
        /\ \A j \in DOMAIN probs : probs[j] <= probs[i]
        /\ \A j \in DOMAIN probs : j < i => probs[j] < probs[i]

HER2_CLASSES == <<"HER2_0", "HER2_1+", "HER2_2+", "HER2_3+">>

RISK_LEVELS ==
    "HER2_0" :> "low" @@ "HER2_1+" :> "medium" @@ "HER2_2+" :> "high" @@ "HER2_3+" :> "critical"

\* mutant: the scores of HER2_1+ and HER2_2+ are exchanged
BASE_RISK_SCORES_Exchanged ==
    "HER2_0" :> 15 @@ "HER2_1+" :> 65 @@ "HER2_2+" :> 35 @@ "HER2_3+" :> 90

BASE_RISK_SCORES ==
    "HER2_0" :> 15 @@ "HER2_1+" :> 35 @@ "HER2_2+" :> 65 @@ "HER2_3+" :> 90

\* the risk weights 0, 0.1, 0.3, 0.5 in tenths
risk_weights == <<0, 1, 3, 5>>

\* mutant: the clamp to 0-100 is left out
_calculate_risk_score_NoClamp(predicted_class, confidence, probabilities) ==
    LET weighted == [i \in DOMAIN probabilities |-> probabilities[i] * risk_weights[i]]
    IN  BASE_RISK_SCORES[predicted_class] * ProbUnits
        + (20 * confidence - 10 * ProbUnits)
        + 2 * SumOver(weighted, DOMAIN probabilities)

\* HER2Predictor._calculate_risk_score, in ProbUnits-ths of a point
_calculate_risk_score(predicted_class, confidence, probabilities) ==
    LET base_score == BASE_RISK_SCORES[predicted_class] * ProbUnits
        \* (confidence - 0.5) * 20
        confidence_adjustment == 20 * confidence - 10 * ProbUnits
        weighted == [i \in DOMAIN probabilities |-> probabilities[i] * risk_weights[i]]
        \* np.sum(probabilities * risk_weights) * 20, the weights being tenths
        probability_contribution == (SumOver(weighted, DOMAIN probabilities) * 20) \div 10
        risk_score == base_score + confidence_adjustment + probability_contribution
    IN  Max2(0, Min2(100 * ProbUnits, risk_score))

(***************************************************************************)
(* HER2Predictor: the lazily loaded model and predict.                     *)
(***************************************************************************)
\* what advanced_breast_cancer_model.joblib is: absent, not loadable, a dict
\* without 'model', a dict without 'scaler', or a complete dict
ArtifactKinds == {"missing", "unreadable", "no_model", "no_scaler", "ok"}

Raise(exc, msg) == [kind |-> "raise", exc |-> exc, msg |-> msg]

\* HER2Predictor._load_model: the fields after the call and what it raises
_load_model ==
    IF model_data # None
    THEN [model_data |-> model_data, ensemble |-> ensemble, scaler |-> scaler,
          joblib_loads |-> 0, raised |-> None]
    ELSE IF artifact = "missing"
    THEN [model_data |-> model_data, ensemble |-> ensemble, scaler |-> scaler,
          joblib_loads |-> 0,
          raised |-> <<"FileNotFoundError", "Model file not found">>]
    ELSE IF artifact = "unreadable"
    THEN [model_data |-> model_data, ensemble |-> ensemble, scaler |-> scaler,
          joblib_loads |-> 1,
          raised |-> <<"RuntimeError", "Failed to load HER2 model">>]
    ELSE IF artifact = "no_model"
    THEN [model_data |-> <<"dict", artifact>>, ensemble |-> ensemble, scaler |-> scaler,
          joblib_loads |-> 1,
          raised |-> <<"RuntimeError", "Model file is corrupted or incompatible">>]
    ELSE IF artifact = "no_scaler"
    THEN [model_data |-> <<"dict", artifact>>, ensemble |-> <<"model">>, scaler |-> scaler,
          joblib_loads |-> 1,
          raised |-> <<"RuntimeError", "Model file is corrupted or incompatible">>]
    ELSE [model_data |-> <<"dict", artifact>>, ensemble |-> <<"model">>,
          scaler |-> <<"scaler">>, joblib_loads |-> 1, raised |-> None]

\* HER2Predictor.predict(image_path): what it returns or raises; probabilities
\* is what predict_proba answers for the image
predict(file, probabilities) ==
    LET loaded == _load_model
    IN  IF loaded.raised # None
        THEN Raise("RuntimeError", <<"Prediction failed", loaded.raised[2]>>)
        ELSE IF ~file.decodable
        THEN Raise("RuntimeError", <<"Prediction failed", "cannot identify image file">>)
        ELSE IF loaded.scaler = None
        THEN Raise("RuntimeError", <<"Prediction failed", "'NoneType' object has no attribute">>)
        ELSE IF loaded.ensemble = None
        THEN Raise("RuntimeError", <<"Prediction failed", "'NoneType' object has no attribute">>)
        ELSE
    LET predicted_class_idx == argmax(probabilities)
        predicted_class == HER2_CLASSES[predicted_class_idx]
        confidence == probabilities[predicted_class_idx]
        risk_level == RISK_LEVELS[predicted_class]
        risk_score == _calculate_risk_score(predicted_class, confidence, probabilities)
        entropy == calculate_entropy(probabilities)
    IN  [kind |-> "return",
         value |-> [her2_status |-> predicted_class, confidence |-> confidence,
                    probabilities |-> probabilities, risk_level |-> risk_level,
                    risk_score |-> risk_score, entropy |-> entropy,
                    model_version |-> "v2.4.1"]]

(***************************************************************************)
(* model_safety.safe_predict.  Its gates are the text of the validator's.  *)
(***************************************************************************)
NoConfig == [is_none |-> TRUE, dict |-> [key \in {} |-> 0]]

Get(d, key, default) == IF key \in DOMAIN d THEN d[key] ELSE default

\* mutant: the default configuration has an entropy threshold of 1.0
safe_predict_DefaultOne(pil_img, cfg_arg, probs) ==
    LET cfg == IF cfg_arg.is_none
               THEN [whitespace_thresh |-> 85, blur_thresh |-> 25,
                     entropy_thresh |-> 1000000, stain_thresh |-> 15]
               ELSE cfg_arg.dict
        cv_img == load_image_opencv(pil_img)
        ws == check_whitespace(cv_img, Get(cfg, "whitespace_thresh", 85))
    IN  IF ws.rejected THEN [status |-> "Rejected", reason |-> ws.reason]
        ELSE
    LET blur == check_blur(cv_img, Get(cfg, "blur_thresh", 50))
    IN  IF blur.rejected THEN [status |-> "Rejected", reason |-> blur.reason]
        ELSE
    LET stain == check_stain_profile(cv_img, Get(cfg, "stain_thresh", 15))
    IN  IF stain.rejected THEN [status |-> "Rejected", reason |-> stain.reason]
        ELSE
    LET ood == check_histogram_similarity(cv_img, Get(cfg, "hist_thresh", 50))
    IN  IF ood.rejected THEN [status |-> "Rejected", reason |-> ood.reason]
        ELSE
    LET pred_idx == argmax(probs)
        pred_label == HER2_CLASSES[pred_idx]
        confidence == probs[pred_idx]
        entropy == calculate_entropy(probs)
        entropy_thresh == Get(cfg, "entropy_thresh", 1000000)
    IN  IF entropy > entropy_thresh
        THEN [status |-> "Unknown",
              reason |-> <<"High Uncertainty", entropy, entropy_thresh>>,
              probabilities |-> probs, entropy |-> entropy]
        ELSE [status |-> "Success", prediction |-> pred_label, confidence |-> confidence,
              entropy |-> entropy, probabilities |-> probs,
              features |-> <<"features of", pil_img.px>>]

\* safe_predict(pil_img, model_data, config), model_data being a complete
\* dict; probs is what predict_proba answers for the image
safe_predict(pil_img, cfg_arg, probs) ==
    LET cfg == IF cfg_arg.is_none
               THEN [whitespace_thresh |-> 85, blur_thresh |-> 25,
                     entropy_thresh |-> 2500000, stain_thresh |-> 15]
               ELSE cfg_arg.dict
        cv_img == load_image_opencv(pil_img)
        ws == check_whitespace(cv_img, Get(cfg, "whitespace_thresh", 85))
    IN  IF ws.rejected THEN [status |-> "Rejected", reason |-> ws.reason]
        ELSE
    LET blur == check_blur(cv_img, Get(cfg, "blur_thresh", 50))
    IN  IF blur.rejected THEN [status |-> "Rejected", reason |-> blur.reason]
        ELSE
    LET stain == check_stain_profile(cv_img, Get(cfg, "stain_thresh", 15))
    IN  IF stain.rejected THEN [status |-> "Rejected", reason |-> stain.reason]
        ELSE
    LET ood == check_histogram_similarity(cv_img, Get(cfg, "hist_thresh", 50))
    IN  IF ood.rejected THEN [status |-> "Rejected", reason |-> ood.reason]
        ELSE
    LET pred_idx == argmax(probs)
        pred_label == HER2_CLASSES[pred_idx]
        confidence == probs[pred_idx]
        entropy == calculate_entropy(probs)
        entropy_thresh == Get(cfg, "entropy_thresh", 1000000)
    IN  IF entropy > entropy_thresh
        THEN [status |-> "Unknown",
              reason |-> <<"High Uncertainty", entropy, entropy_thresh>>,
              probabilities |-> probs, entropy |-> entropy]
        ELSE [status |-> "Success", prediction |-> pred_label, confidence |-> confidence,
              entropy |-> entropy, probabilities |-> probs,
              features |-> <<"features of", pil_img.px>>]

(***************************************************************************)
(* Inputs of the requests.                                                 *)
(***************************************************************************)
\* what a path can hold: an image, or bytes PIL cannot decode
Files == { [decodable |-> TRUE, image |-> img] : img \in Images }
         \cup { [decodable |-> FALSE,
                 image |-> [size |-> <<0, 0>>,
                            px |-> [minor |-> WHITE, major |-> WHITE, k |-> 0, lap |-> 0]]] }

EmptyDict == [key \in {} |-> 0]

\* the config argument of validate and validate_pil_image
Overrides == {EmptyDict, [stain_thresh |-> 0], [stain_thresh |-> 15],
              [blur_thresh |-> 0], [hist_thresh |-> 100]}

\* reference_histograms.pkl as build_reference.py writes it: the histograms of
\* reference slides
ReferenceSlides ==
    { [size |-> <<100, 100>>, px |-> [minor |-> BROWN, major |-> BLUE, k |-> 5, lap |-> 20]],
      [size |-> <<100, 100>>, px |-> [minor |-> WHITE, major |-> H24, k |-> 4, lap |-> 20]] }

ReferenceHists == { compute_histogram(load_image_opencv(img)) : img \in ReferenceSlides }

RECURSIVE SeqsUpTo(_, _)
SeqsUpTo(S, n) ==
    IF n = 0 THEN {<<>>}
    ELSE LET shorter == SeqsUpTo(S, n - 1)
         IN  shorter \cup { Append(q, x) : q \in shorter, x \in S }

\* the value of REFERENCE_HISTOGRAMS after the import of image_validator.py
ReferenceCorpora ==
    {NoReferences} \cup { [loaded |-> TRUE, hists |-> q] : q \in SeqsUpTo(ReferenceHists, MaxRefs) }

\* the requests in flight on the predictor singleton; none outside RaceSpec
Threads == 1..MaxThreads

IdleRequest == [pc |-> "idle", outcome |-> None]

NoRequests == [t \in Threads |-> IdleRequest]

\* users and patients of the database
Users ==
    [doc1 |-> [role |-> "doctor"], doc2 |-> [role |-> "doctor"],
     nurse1 |-> [role |-> "nurse"], admin1 |-> [role |-> "superadmin"]]

PatientRows ==
    [pat1 |-> [patient_code |-> "PT-2025-0001", assigned_doctor |-> "doc1", is_deleted |-> FALSE,
               created_by |-> "nurse1"],
     pat2 |-> [patient_code |-> "PT-2025-0002", assigned_doctor |-> "doc2", is_deleted |-> FALSE,
               created_by |-> "nurse1"]]

\* make_password / check_password: the stored hash of a raw password
make_password(raw) == <<"pbkdf2_sha256", raw>>

check_password(raw, encoded) == encoded = make_password(raw)

\* the rows of the user table: one account per user, no reset token
UserRows ==
    [id \in DOMAIN Users |->
        [exists |-> TRUE, email |-> id, role |-> Users[id].role,
         password |-> make_password("pass123"),
         reset_token |-> None, reset_token_expires |-> None]]

AccountsInit ==
    /\ users = UserRows
    /\ user_archive = <<>>
    /\ now = 0
    /\ tokens = 0
    /\ issued = <<>>

\* no prediction, recommendation or document yet
RecordsInit ==
    /\ predictions = <<>>
    /\ recommendations = <<>>
    /\ documents = <<>>

Idle == [op |-> "idle"]
NoReturn == [kind |-> "none"]
NoPrev == [op |-> "none"]

(***************************************************************************)
(* The validator requests.                                                 *)
(***************************************************************************)
TypeOK ==
    /\ REFERENCE_HISTOGRAMS \in ReferenceCorpora
    /\ config = DEFAULT_CONFIG

Init ==
    /\ REFERENCE_HISTOGRAMS \in ReferenceCorpora
    /\ config = MergeDict(DEFAULT_CONFIG, EmptyDict)
    /\ call = Idle
    /\ ret = NoReturn
    /\ prev = NoPrev
    /\ artifact = "ok"
    /\ model_data = None
    /\ ensemble = None
    /\ scaler = None
    /\ loads = 0
    /\ requests = NoRequests
    /\ patients = PatientRows
    /\ cases = <<>>
    /\ AccountsInit
    /\ RecordsInit

\* mutant: the overrides are written into self.config (self.config.update(config))
config_after_call_Updated(over) == MergeDict(config, over)

\* self.config after validate or validate_pil_image: cfg is a new dict, the
\* attribute is not assigned
config_after_call(over) == config

Validate(file, over) ==
    /\ call = Idle
    /\ call' = [op |-> "validate", file |-> file, config |-> over]
    /\ ret' = [kind |-> "return", value |-> validate(file, over)]
    /\ config' = config_after_call(over)
    /\ UNCHANGED <<REFERENCE_HISTOGRAMS, prev, artifact, model_data, ensemble, scaler, loads, requests, database, accounts, records>>

ValidatePil(pil_img, over) ==
    /\ call = Idle
    /\ call' = [op |-> "validate_pil_image", pil_img |-> pil_img, config |-> over]
    /\ ret' = [kind |-> "return", value |-> validate_pil_image(pil_img, over)]
    /\ config' = config_after_call(over)
    /\ UNCHANGED <<REFERENCE_HISTOGRAMS, prev, artifact, model_data, ensemble, scaler, loads, requests, database, accounts, records>>

\* the caller takes the result; the locals of the call are gone
Return ==
    /\ call # Idle
    /\ call' = Idle
    /\ ret' = NoReturn
    /\ prev' = NoPrev
    /\ UNCHANGED <<REFERENCE_HISTOGRAMS, config, artifact, model_data, ensemble, scaler, loads, requests, database, accounts, records>>

Next ==
    \/ call = Idle /\ \E file \in Files, over \in Overrides : Validate(file, over)
    \/ call = Idle /\ \E pil_img \in Images, over \in Overrides : ValidatePil(pil_img, over)
    \/ Return

Spec == Init /\ [][Next]_vars

(***************************************************************************)
(* The prediction requests: safe_predict (the Streamlit path) and          *)
(* HER2Predictor.predict (the Django path).  Under PredictSpec             *)
(* REFERENCE_HISTOGRAMS is the corpus model_safety.py loaded.              *)
(***************************************************************************)
Slide(minor, major, k, lap) ==
    [size |-> <<100, 100>>, px |-> [minor |-> minor, major |-> major, k |-> k, lap |-> lap]]

\* a stained sharp slide, a blank one, a blurred one and an unstained one
PredictImages ==
    {Slide(BROWN, BLUE, 5, 60), Slide(BROWN, WHITE, 4, 60),
     Slide(BROWN, BLUE, 5, 20), Slide(GREEN, H100, 5, 60)}

PredictFiles ==
    { f \in Files : ~f.decodable \/ f.image = Slide(BROWN, BLUE, 5, 20) }

\* the config argument of safe_predict
SafeConfigs ==
    {NoConfig} \cup
    { [is_none |-> FALSE, dict |-> d] :
        d \in {EmptyDict, [entropy_thresh |-> 1500000], [entropy_thresh |-> 0],
               [blur_thresh |-> 25, stain_thresh |-> 0]} }

PredictInit ==
    /\ REFERENCE_HISTOGRAMS \in
           {NoReferences,
            [loaded |-> TRUE,
             hists |-> <<compute_histogram(load_image_opencv(Slide(BROWN, BLUE, 5, 20)))>>]}
    /\ config = MergeDict(DEFAULT_CONFIG, EmptyDict)
    /\ call = Idle
    /\ ret = NoReturn
    /\ prev = NoPrev
    /\ artifact \in ArtifactKinds
    /\ model_data = None
    /\ ensemble = None
    /\ scaler = None
    /\ loads = 0
    /\ requests = NoRequests
    /\ patients = PatientRows
    /\ cases = <<>>
    /\ AccountsInit
    /\ RecordsInit

SafePredict(pil_img, cfg_arg, probs) ==
    /\ call = Idle
    /\ call' = [op |-> "safe_predict", pil_img |-> pil_img, config |-> cfg_arg, probs |-> probs]
    /\ ret' = [kind |-> "return", value |-> safe_predict(pil_img, cfg_arg, probs)]
    /\ UNCHANGED <<REFERENCE_HISTOGRAMS, config, prev, artifact, model_data, ensemble, scaler, loads, requests, database, accounts, records>>

Predict(file, probs) ==
    /\ call = Idle
    /\ loads + _load_model.joblib_loads <= MaxLoads
    /\ call' = [op |-> "predict", file |-> file, probs |-> probs]
    /\ ret' = predict(file, probs)
    /\ loads' = loads + _load_model.joblib_loads
    /\ model_data' = _load_model.model_data
    /\ ensemble' = _load_model.ensemble
    /\ scaler' = _load_model.scaler
    /\ UNCHANGED <<REFERENCE_HISTOGRAMS, config, prev, artifact, requests, database, accounts, records>>

\* an operator replaces the artifact file
ReplaceArtifact(kind) ==
    /\ call = Idle
    /\ artifact # kind
    /\ artifact' = kind
    /\ UNCHANGED <<REFERENCE_HISTOGRAMS, config, call, ret, prev, model_data, ensemble, scaler, loads, requests, database, accounts, records>>

PredictNext ==
    \/ call = Idle /\ \E pil_img \in PredictImages, cfg_arg \in SafeConfigs, probs \in ProbVectors :
           SafePredict(pil_img, cfg_arg, probs)
    \/ call = Idle /\ \E file \in PredictFiles, probs \in ProbVectors : Predict(file, probs)
    \/ \E kind \in ArtifactKinds : ReplaceArtifact(kind)
    \/ Return

PredictSpec == PredictInit /\ [][PredictNext]_vars

(***************************************************************************)
(* The risk score as a function: calls of _calculate_risk_score on any     *)
(* class, confidence and probability vector, and a second call that        *)
(* changes the class alone.                                                *)
(***************************************************************************)
RiskInit ==
    /\ REFERENCE_HISTOGRAMS = NoReferences
    /\ config = MergeDict(DEFAULT_CONFIG, EmptyDict)
    /\ call = Idle
    /\ ret = NoReturn
    /\ prev = NoPrev
    /\ artifact = "ok"
    /\ model_data = None
    /\ ensemble = None
    /\ scaler = None
    /\ loads = 0
    /\ requests = NoRequests
    /\ patients = PatientRows
    /\ cases = <<>>
    /\ AccountsInit
    /\ RecordsInit

RiskScore(predicted_class, confidence, probabilities) ==
    /\ call = Idle
    /\ call' = [op |-> "_calculate_risk_score", predicted_class |-> predicted_class,
                confidence |-> confidence, probabilities |-> probabilities]
    /\ ret' = [kind |-> "return",
               value |-> _calculate_risk_score(predicted_class, confidence, probabilities)]
    /\ UNCHANGED <<REFERENCE_HISTOGRAMS, config, prev, artifact, model_data, ensemble, scaler, loads, requests, database, accounts, records>>

RiskScoreOtherClass(predicted_class) ==
    /\ call.op = "_calculate_risk_score"
    /\ prev = NoPrev
    /\ predicted_class # call.predicted_class
    /\ prev' = [op |-> call.op, call |-> call, ret |-> ret]
    /\ call' = [call EXCEPT !.predicted_class = predicted_class]
    /\ ret' = [kind |-> "return",
               value |-> _calculate_risk_score(predicted_class, call.confidence,
                                               call.probabilities)]
    /\ UNCHANGED <<REFERENCE_HISTOGRAMS, config, artifact, model_data, ensemble, scaler, loads, requests, database, accounts, records>>

ClassNames == { HER2_CLASSES[i] : i \in DOMAIN HER2_CLASSES }

RiskNext ==
    \/ call = Idle /\ \E cls \in ClassNames, confidence \in 0..ProbUnits, probs \in ProbVectors :
           RiskScore(cls, confidence, probs)
    \/ \E cls \in ClassNames : RiskScoreOtherClass(cls)
    \/ Return

RiskSpec == RiskInit /\ [][RiskNext]_vars

(***************************************************************************)
(* Properties of the gating pipeline.                                      *)
(***************************************************************************)
ValidateCall == call.op = "validate" /\ call.file.decodable

PilCall == call.op = "validate_pil_image"

GateCall == ValidateCall \/ PilCall

CallImage == IF call.op = "validate" THEN call.file.image ELSE call.pil_img

CallCfg == MergeDict(config, call.config)

Report == ret.value

HasCheck(report, name) == \E i \in 1..Len(report.checks) : report.checks[i].name = name

CheckOf(report, name) ==
    report.checks[CHOOSE i \in 1..Len(report.checks) : report.checks[i].name = name]

GateOrder == <<"dimensions", "whitespace", "blur", "stain_profile", "histogram_similarity">>

SizeOutOfBounds(img) ==
    \/ img.size[1] < MIN_WIDTH \/ img.size[2] < MIN_HEIGHT
    \/ img.size[1] > MAX_WIDTH \/ img.size[2] > MAX_HEIGHT

\* what gate number g decides on img under cfg, taken alone
GateAlone(g, img, cfg) ==
    LET cv_img == load_image_opencv(img)
    IN  CASE g = 1 -> [rejected |-> SizeOutOfBounds(img),
                       reason |-> <<IF img.size[1] < MIN_WIDTH \/ img.size[2] < MIN_HEIGHT
                                    THEN "Image too small" ELSE "Image too large",
                                    img.size[1], img.size[2]>>]
          [] g = 2 -> check_whitespace(cv_img, cfg.whitespace_thresh)
          [] g = 3 -> check_blur(cv_img, cfg.blur_thresh)
          [] g = 4 -> check_stain_profile(cv_img, cfg.stain_thresh)
          [] g = 5 -> check_histogram_similarity(cv_img, cfg.hist_thresh)

FailingGates(img, cfg) == { g \in 1..5 : GateAlone(g, img, cfg).rejected }

FirstFailing(img, cfg) ==
    CHOOSE g \in FailingGates(img, cfg) : \A g2 \in FailingGates(img, cfg) : g <= g2

\* C1: validate runs the gates in the order dimensions, whitespace, blur,
\* stain_profile, histogram_similarity: the run ends rejected at the first gate
\* that fails, with that gate's reason; the checks of the report are in that
\* order, every gate before the failing one is recorded as passed and no gate
\* after it is recorded; with no failing gate all five are recorded and the
\* image is valid.
C1_GatesInOrder ==
    ValidateCall =>
        LET failing == FailingGates(CallImage, CallCfg)
            checks == Report.checks
        IN  /\ \A i \in 1..Len(checks) : i <= 5 /\ checks[i].name = GateOrder[i]
            /\ IF failing = {}
               THEN Report.status = "valid" /\ Len(checks) = 5
               ELSE LET f == FirstFailing(CallImage, CallCfg)
                    IN  /\ Report.status = "rejected"
                        /\ Report.reason = GateAlone(f, CallImage, CallCfg).reason
                        /\ Len(checks) <= f
                        /\ Len(checks) >= f - 1
                        /\ \A i \in 1..Len(checks) : i < f => checks[i].passed

\* a run that blur ended although the stain gate would have failed as well
C1_Witness ==
    /\ ValidateCall
    /\ FailingGates(CallImage, CallCfg) = {3, 4}
    /\ Report.status = "rejected"
    /\ Report.reason[1] = "Image is blurry"
    /\ Len(Report.checks) = 3

\* C2: for an image whose width or height is out of bounds the report has
\* is_valid = false and its checks hold the dimensions check with passed = false.
C2_DimensionsCheckNamed ==
    (GateCall /\ SizeOutOfBounds(CallImage)) =>
        /\ ~Report.is_valid
        /\ HasCheck(Report, "dimensions")
        /\ ~CheckOf(Report, "dimensions").passed

\* luminance above 220
ClaimBright(p) == BGR2GRAY(p) > 220

\* the percent of the pixels of img that are bright
BrightShare(img) ==
    LET cv_img == load_image_opencv(img)
    IN  PercentWhere(cv_img, [p \in PixelValues(cv_img) |-> ClaimBright(p)])

WhitespaceFailsAndStops ==
    /\ ~Report.is_valid
    /\ HasCheck(Report, "whitespace")
    /\ ~CheckOf(Report, "whitespace").passed
    /\ ~HasCheck(Report, "stain_profile")

\* C3 as stated: a share of bright pixels greater than or equal to
\* whitespace_ratio_max fails the whitespace gate.
C3_WhitespaceAtOrAbove ==
    (/\ GateCall
     /\ ~SizeOutOfBounds(CallImage)
     /\ BrightShare(CallImage) >= CallCfg.whitespace_thresh)
        => WhitespaceFailsAndStops

\* C3 amended: for every image of accepted dimensions whose share of bright
\* pixels (luminance > 220) is strictly greater than whitespace_ratio_max, the
\* whitespace gate fails and the report holds no stain_profile outcome.
C3_WhitespaceAbove ==
    (/\ GateCall
     /\ ~SizeOutOfBounds(CallImage)
     /\ BrightShare(CallImage) > CallCfg.whitespace_thresh)
        => WhitespaceFailsAndStops

\* a 96 percent bright image of light grey pixels, rejected under the default 95
C3_Witness ==
    /\ GateCall
    /\ ~SizeOutOfBounds(CallImage)
    /\ CallImage.px.major = G221
    /\ BrightShare(CallImage) = 96
    /\ CallCfg.whitespace_thresh = 95
    /\ WhitespaceFailsAndStops

\* the stain rule of the claim, on the 0-180 hue scale
ClaimHueInBand(h) ==
    \/ 100 < h /\ h < 170
    \/ 0 <= h /\ h < 25
    \/ 160 < h /\ h <= 180

ClaimStained(p) ==
    LET hsv == BGR2HSV(p)
    IN  hsv[2] > 30 /\ hsv[3] < 235 /\ ClaimHueInBand(hsv[1])

StainGateRan == GateCall /\ HasCheck(Report, "stain_profile")

AllHuesOutsideBands(img) ==
    LET cv_img == load_image_opencv(img)
    IN  \A p \in PixelValues(cv_img) : ~ClaimHueInBand(BGR2HSV(p)[1])

\* C5 as stated: an image whose pixels all have a hue outside both bands fails
\* the stain gate under every stain_coverage_min.
C5_OffHueFailsAlways ==
    (StainGateRan /\ AllHuesOutsideBands(CallImage))
        => ~CheckOf(Report, "stain_profile").passed

\* C5 amended: an image whose pixels all have a hue outside both stain hue
\* bands fails the stain gate for every stain_coverage_min above 0, whatever
\* its saturation and value.
C5_OffHueFailsPositive ==
    (StainGateRan /\ AllHuesOutsideBands(CallImage) /\ CallCfg.stain_thresh > 0)
        => ~CheckOf(Report, "stain_profile").passed

\* a green and hue-100 image, saturated and dark enough, rejected by the gate
C5_Witness ==
    /\ StainGateRan
    /\ AllHuesOutsideBands(CallImage)
    /\ CallImage.px.major = H100
    /\ CallCfg.stain_thresh > 0
    /\ CheckOf(Report, "stain_profile").reason[1] = "No stain detected"

NoveltyGateRan == GateCall /\ HasCheck(Report, "histogram_similarity")

ScoresOf(img) ==
    { compareHist(compute_histogram(load_image_opencv(img)), REFERENCE_HISTOGRAMS.hists[i]) :
        i \in 1..Len(REFERENCE_HISTOGRAMS.hists) }

\* C6: the novelty gate rejects exactly when the corpus is loaded, not empty
\* and every correlation is below histogram_similarity_min; without a corpus
\* it passes every image, and one reference at or above the threshold is enough.
C6_NoveltyRule ==
    NoveltyGateRan =>
        CheckOf(Report, "histogram_similarity").passed =
            ~(/\ REFERENCE_HISTOGRAMS.loaded
              /\ Len(REFERENCE_HISTOGRAMS.hists) > 0
              /\ \A sc \in ScoresOf(CallImage) : sc < CallCfg.hist_thresh)

\* the first reference matches, the last one does not, and the image passes
C6_Witness ==
    /\ NoveltyGateRan
    /\ REFERENCE_HISTOGRAMS.loaded
    /\ Len(REFERENCE_HISTOGRAMS.hists) = 2
    /\ compareHist(compute_histogram(load_image_opencv(CallImage)),
                   REFERENCE_HISTOGRAMS.hists[1]) >= CallCfg.hist_thresh
    /\ compareHist(compute_histogram(load_image_opencv(CallImage)),
                   REFERENCE_HISTOGRAMS.hists[2]) < CallCfg.hist_thresh
    /\ CheckOf(Report, "histogram_similarity").passed

(***************************************************************************)
(* Properties of the prediction outcome.                                   *)
(***************************************************************************)
\* a call that got as far as the classifier
Classified ==
    \/ call.op = "safe_predict" /\ ret.value.status # "Rejected"
    \/ call.op = "predict" /\ ret.kind = "return"

\* the entropy_max the path runs under
EntropyMax ==
    IF call.op = "safe_predict"
    THEN IF call.config.is_none THEN 2500000
         ELSE Get(call.config.dict, "entropy_thresh", 1000000)
    ELSE config.entropy_thresh

\* C7: after classification the status is Unknown exactly when the entropy
\* exceeds entropy_max and Success otherwise, on safe_predict and on
\* HER2Predictor.predict; an Unknown outcome still holds the probabilities and
\* the entropy.
C7_UnknownIffEntropyAbove ==
    Classified =>
        LET out == ret.value
            uncertain == calculate_entropy(call.probs) > EntropyMax
        IN  /\ "status" \in DOMAIN out
            /\ out.status = IF uncertain THEN "Unknown" ELSE "Success"
            /\ uncertain => {"probabilities", "entropy"} \subseteq DOMAIN out

\* the parts of PredictionOutcome and RiskAssessment a result holds
OutcomeParts(out) ==
    (IF {"prediction", "her2_status"} \cap DOMAIN out # {} THEN {"predicted_class"} ELSE {})
    \cup (DOMAIN out \cap {"confidence", "probabilities", "entropy", "risk_level", "risk_score"})
    \cup (IF "status" \in DOMAIN out THEN {"status"} ELSE {})

AllParts ==
    {"predicted_class", "confidence", "probabilities", "entropy", "status",
     "risk_level", "risk_score"}

\* C8: once classification has begun a result carries the whole
\* PredictionOutcome and RiskAssessment or nothing of them.
C8_AllOrNothing ==
    Classified => OutcomeParts(ret.value) \in {AllParts, {}}

(***************************************************************************)
(* Properties of the risk score.                                           *)
(***************************************************************************)
RiskCall == call.op = "_calculate_risk_score"

\* base + (confidence - 0.5) * 20 + 20 * sum(p_i * w_i), w = (0, 0.1, 0.3, 0.5),
\* in ProbUnits-ths of a point
ClaimedRawScore(cls, confidence, probs) ==
    BASE_RISK_SCORES[cls] * ProbUnits
    + (20 * confidence - 10 * ProbUnits)
    + 2 * (0 * probs[1] + 1 * probs[2] + 3 * probs[3] + 5 * probs[4])

\* C9: _calculate_risk_score returns base + (confidence - 0.5) * 20 +
\* 20 * sum(p_i * w_i) clamped to [0,100], so every score is within [0,100].
C9_ScoreClamped ==
    RiskCall =>
        LET raw == ClaimedRawScore(call.predicted_class, call.confidence, call.probabilities)
        IN  /\ ret.value >= 0
            /\ ret.value <= 100 * ProbUnits
            /\ ret.value = IF raw < 0 THEN 0
                           ELSE IF raw > 100 * ProbUnits THEN 100 * ProbUnits
                           ELSE raw

\* HER2_3+ with full confidence: 90 + 10 + 10 is clamped to 100
C9_Witness ==
    /\ RiskCall
    /\ call.predicted_class = "HER2_3+"
    /\ ClaimedRawScore(call.predicted_class, call.confidence, call.probabilities)
           = 110 * ProbUnits
    /\ ret.value = 100 * ProbUnits

Severity(cls) == CHOOSE i \in DOMAIN HER2_CLASSES : HER2_CLASSES[i] = cls

\* C10: with the confidence and the probability vector held constant the risk
\* score does not decrease as the predicted class moves up
\* HER2_0, HER2_1+, HER2_2+, HER2_3+, clamp included.
C10_MonotoneInClass ==
    (/\ RiskCall
     /\ prev.op = "_calculate_risk_score"
     /\ prev.call.confidence = call.confidence
     /\ prev.call.probabilities = call.probabilities
     /\ Severity(prev.call.predicted_class) <= Severity(call.predicted_class))
        => prev.ret.value <= ret.value

\* the same inputs scored for HER2_2+ and then for HER2_3+, where the clamp cuts
C10_Witness ==
    /\ RiskCall
    /\ prev.op = "_calculate_risk_score"
    /\ prev.call.confidence = call.confidence
    /\ prev.call.probabilities = call.probabilities
    /\ prev.call.predicted_class = "HER2_2+"
    /\ call.predicted_class = "HER2_3+"
    /\ ret.value = 100 * ProbUnits
    /\ ClaimedRawScore(call.predicted_class, call.confidence, call.probabilities)
           > 100 * ProbUnits
    /\ prev.ret.value < ret.value

(***************************************************************************)
(* Properties of the lazy load of the classifier artifact.                 *)
(***************************************************************************)
PredictCall == call.op = "predict"

\* after a predict call: the predictor has no usable model, the load of this
\* call or of an earlier one having failed
ModelUnavailable == model_data = None \/ ensemble = None \/ scaler = None

\* the messages of the errors _load_model raises
LoadErrorTexts ==
    {"Model file not found", "Failed to load HER2 model",
     "Model file is corrupted or incompatible"}

\* C11: when the artifact is missing or corrupt, predict raises an error that
\* names the load failure, so that a caller can tell it apart from an error of
\* feature extraction, scaling or inference; it is never an ordinary
\* prediction error or a result.
C11_LoadFailureDistinct ==
    (PredictCall /\ ModelUnavailable) =>
        /\ ret.kind = "raise"
        /\ ret.msg[2] \in LoadErrorTexts

\* C12: over any sequence of predict calls in one process joblib.load is
\* called at most once, whether the first load succeeded or failed.
C12_LoadAtMostOnce == loads <= 1

\* what the first predict call on a faulty artifact raises
FirstLoadError(kind) ==
    CASE kind = "missing" -> "Model file not found"
      [] kind = "unreadable" -> "Failed to load HER2 model"
      [] kind \in {"no_model", "no_scaler"} -> "Model file is corrupted or incompatible"

\* C13: while the artifact is faulty (missing, unreadable, or without its
\* 'model' or 'scaler' key) every predict call fails with the error of the
\* first one; no call gets past the load step with the scaler or the model
\* unset.  What the predictor holds was read from the artifact as it is now.
C13_FailsIdentically ==
    (PredictCall /\ artifact # "ok" /\ model_data \in {None, <<"dict", artifact>>}) =>
        ret = Raise("RuntimeError", <<"Prediction failed", FirstLoadError(artifact)>>)

(***************************************************************************)
(* Requests that share the predictor singleton, statement by statement:    *)
(* each request is a thread inside predictor.predict, and the interpreter  *)
(* may switch threads between any two statements.                          *)
(***************************************************************************)
RaceInit ==
    /\ REFERENCE_HISTOGRAMS = NoReferences
    /\ config = MergeDict(DEFAULT_CONFIG, EmptyDict)
    /\ call = Idle
    /\ ret = NoReturn
    /\ prev = NoPrev
    /\ artifact \in ArtifactKinds
    /\ model_data = None
    /\ ensemble = None
    /\ scaler = None
    /\ loads = 0
    /\ requests = NoRequests
    /\ patients = PatientRows
    /\ cases = <<>>
    /\ AccountsInit
    /\ RecordsInit

Goto(t, pc) == requests' = [requests EXCEPT ![t].pc = pc]

\* the except clause of predict: the request ends with RuntimeError
Fail(t, msg) ==
    requests' = [requests EXCEPT ![t] =
                    [pc |-> "done", outcome |-> <<"RuntimeError", "Prediction failed", msg>>]]

\* predict is entered and calls _load_model
EnterPredict(t) ==
    /\ requests[t].pc = "idle"
    /\ Goto(t, "guard")
    /\ UNCHANGED <<REFERENCE_HISTOGRAMS, config, call, ret, prev, artifact, model_data,
                   ensemble, scaler, loads, database, accounts, records>>

\* if self._model_data is not None: return
LoadGuard(t) ==
    /\ requests[t].pc = "guard"
    /\ IF model_data # None THEN Goto(t, "extract") ELSE Goto(t, "probe")
    /\ UNCHANGED <<REFERENCE_HISTOGRAMS, config, call, ret, prev, artifact, model_data,
                   ensemble, scaler, loads, database, accounts, records>>

\* the search of possible_paths and the FileNotFoundError
ProbePaths(t) ==
    /\ requests[t].pc = "probe"
    /\ IF artifact = "missing" THEN Fail(t, "Model file not found") ELSE Goto(t, "load")
    /\ UNCHANGED <<REFERENCE_HISTOGRAMS, config, call, ret, prev, artifact, model_data,
                   ensemble, scaler, loads, database, accounts, records>>

\* self._model_data = joblib.load(model_path)
JoblibLoad(t) ==
    /\ requests[t].pc = "load"
    /\ loads < MaxLoads
    /\ loads' = loads + 1
    /\ IF artifact = "unreadable"
       THEN Fail(t, "Failed to load HER2 model") /\ UNCHANGED model_data
       ELSE Goto(t, "read_model") /\ model_data' = <<"dict", artifact>>
    /\ UNCHANGED <<REFERENCE_HISTOGRAMS, config, call, ret, prev, artifact,
                   ensemble, scaler, database, accounts, records>>

\* self._ensemble = self._model_data['model']
ReadModel(t) ==
    /\ requests[t].pc = "read_model"
    /\ IF model_data[2] = "no_model"
       THEN Fail(t, "Model file is corrupted or incompatible") /\ UNCHANGED ensemble
       ELSE Goto(t, "read_scaler") /\ ensemble' = <<"model">>
    /\ UNCHANGED <<REFERENCE_HISTOGRAMS, config, call, ret, prev, artifact, model_data,
                   scaler, loads, database, accounts, records>>

\* self._scaler = self._model_data['scaler'], and the rest of _load_model
ReadScaler(t) ==
    /\ requests[t].pc = "read_scaler"
    /\ IF model_data[2] = "no_scaler"
       THEN Fail(t, "Model file is corrupted or incompatible") /\ UNCHANGED scaler
       ELSE Goto(t, "extract") /\ scaler' = <<"scaler">>
    /\ UNCHANGED <<REFERENCE_HISTOGRAMS, config, call, ret, prev, artifact, model_data,
                   ensemble, loads, database, accounts, records>>

\* extract_features_from_image and reshape, of an image that decodes
ExtractFeatures(t) ==
    /\ requests[t].pc = "extract"
    /\ Goto(t, "scale")
    /\ UNCHANGED <<REFERENCE_HISTOGRAMS, config, call, ret, prev, artifact, model_data,
                   ensemble, scaler, loads, database, accounts, records>>

\* self._scaler.n_features_in_ and self._scaler.transform(features)
ScaleFeatures(t) ==
    /\ requests[t].pc = "scale"
    /\ IF scaler = None
       THEN Fail(t, "'NoneType' object has no attribute")
       ELSE Goto(t, "infer")
    /\ UNCHANGED <<REFERENCE_HISTOGRAMS, config, call, ret, prev, artifact, model_data,
                   ensemble, scaler, loads, database, accounts, records>>

\* self._ensemble.predict_proba(scaled_features) and the result dict
Infer(t) ==
    /\ requests[t].pc = "infer"
    /\ IF ensemble = None
       THEN Fail(t, "'NoneType' object has no attribute")
       ELSE requests' = [requests EXCEPT ![t] = [pc |-> "done", outcome |-> <<"return">>]]
    /\ UNCHANGED <<REFERENCE_HISTOGRAMS, config, call, ret, prev, artifact, model_data,
                   ensemble, scaler, loads, database, accounts, records>>

\* the caller has the result or the error; the thread serves the next request
EndRequest(t) ==
    /\ requests[t].pc = "done"
    /\ requests' = [requests EXCEPT ![t] = IdleRequest]
    /\ UNCHANGED <<REFERENCE_HISTOGRAMS, config, call, ret, prev, artifact, model_data,
                   ensemble, scaler, loads, database, accounts, records>>

RaceNext ==
    \E t \in Threads :
        \/ EnterPredict(t)
        \/ LoadGuard(t)
        \/ ProbePaths(t)
        \/ JoblibLoad(t)
        \/ ReadModel(t)
        \/ ReadScaler(t)
        \/ ExtractFeatures(t)
        \/ ScaleFeatures(t)
        \/ Infer(t)
        \/ EndRequest(t)

RaceSpec == RaceInit /\ [][RaceNext]_vars

\* the request is past the load step of predict
PastLoad(t) == requests[t].pc \in {"extract", "scale", "infer"}

\* C14: when requests race through the first call of the shared predictor with
\* a good artifact, joblib.load is called exactly once and no request is past
\* the load step while _scaler or _ensemble is still unset.
C14_LoadOnceNoPartialView ==
    artifact = "ok" =>
        /\ loads <= 1
        /\ \A t \in Threads : PastLoad(t) => (ensemble # None /\ scaler # None)

(***************************************************************************)
(* Properties of the validator's configuration and of its error path.      *)
(***************************************************************************)
\* the thresholds the claim gives a call: the override where one is passed,
\* the default otherwise
ClaimThresholds ==
    [key \in DOMAIN DEFAULT_CONFIG |->
        IF key \in DOMAIN call.config THEN call.config[key] ELSE DEFAULT_CONFIG[key]]

\* C15: the overrides of a call are merged onto the defaults for that call
\* only: self.config equals DEFAULT_CONFIG in every state, and every call on an
\* image of accepted size decides by the thresholds it overrides and the
\* defaults for the rest; a call without overrides decides by the defaults.
C15_OverridesPerCall ==
    /\ config = DEFAULT_CONFIG
    /\ (GateCall /\ ~SizeOutOfBounds(CallImage)) =>
           LET failing == FailingGates(CallImage, ClaimThresholds)
           IN  IF failing = {}
               THEN Report.is_valid
               ELSE /\ ~Report.is_valid
                    /\ Report.reason =
                           GateAlone(FirstFailing(CallImage, ClaimThresholds),
                                     CallImage, ClaimThresholds).reason

\* a call whose override decides otherwise than the defaults would, and that
\* left self.config alone
C15_Witness ==
    /\ GateCall
    /\ ~SizeOutOfBounds(CallImage)
    /\ call.config # EmptyDict
    /\ FailingGates(CallImage, ClaimThresholds) # FailingGates(CallImage, DEFAULT_CONFIG)
    /\ FailingGates(CallImage, DEFAULT_CONFIG) = {}
    /\ ~Report.is_valid
    /\ config = DEFAULT_CONFIG

FeatureScale == 2 * 3 * 36

\* pil_img.convert('RGB')
convert_RGB(pil_img) ==
    IF pil_img.mode = "RGB" THEN pil_img.rows
    ELSE [y \in DOMAIN pil_img.rows |->
             [x \in DOMAIN pil_img.rows[y] |->
                 <<pil_img.rows[y][x], pil_img.rows[y][x], pil_img.rows[y][x]>>]]

\* img_array[:, :, channel]
ChannelOf(img_array, channel) ==
    [y \in DOMAIN img_array |-> [x \in DOMAIN img_array[y] |-> img_array[y][x][channel]]]

\* the sums behind np.mean(img_array, axis=2)
ChannelSums(img_array) ==
    [y \in DOMAIN img_array |->
        [x \in DOMAIN img_array[y] |->
            img_array[y][x][1] + img_array[y][x][2] + img_array[y][x][3]]]

Cells(a) == { <<y, x>> : y \in DOMAIN a, x \in DOMAIN a[1] }

\* the array as a function of its cells
AtCell(a) == [c \in Cells(a) |-> a[c[1]][c[2]]]

Abs(n) == IF n < 0 THEN -n ELSE n

\* np.mean of an array of values a / den
np_mean(a, den) ==
    (SumOver(AtCell(a), Cells(a)) * FeatureScale) \div (Cardinality(Cells(a)) * den)

\* np.std of an array of values a / den
np_std(a, den) ==
    LET n == Cardinality(Cells(a))
        sum == SumOver(AtCell(a), Cells(a))
        squares == SumOver([c \in Cells(a) |-> a[c[1]][c[2]] * a[c[1]][c[2]]], Cells(a))
    IN  ISqrt((n * squares - sum * sum) * ((FeatureScale * FeatureScale) \div (n * n * den * den)))

\* the k-th value of the sorted flattened array, k from 0
KthSmallest(a, k) ==
    CHOOSE v \in { a[c[1]][c[2]] : c \in Cells(a) } :
        /\ Cardinality({ c \in Cells(a) : a[c[1]][c[2]] < v }) <= k
        /\ k < Cardinality({ c \in Cells(a) : a[c[1]][c[2]] <= v })

\* np.percentile(a, 25 * quarters): linear interpolation between the ranks
np_percentile(a, quarters) ==
    LET n == Cardinality(Cells(a))
        pos == quarters * (n - 1)
        lo == pos \div 4
        frac == pos % 4
        below == KthSmallest(a, lo)
        above == KthSmallest(a, Min2(lo + 1, n - 1))
    IN  (4 * below + frac * (above - below)) * (FeatureScale \div 4)

\* np.median
np_median(a) == np_percentile(a, 2)

\* twice np.gradient(a)[axis]: central differences inside, one-sided first
\* differences at the two ends; axis 0 runs over the rows, axis 1 over the columns
np_gradient(a, axis) ==
    LET h == Len(a)
        w == Len(a[1])
        last == IF axis = 0 THEN h ELSE w
        At(y, x, i) == IF axis = 0 THEN a[i][x] ELSE a[y][i]
        Pos(y, x) == IF axis = 0 THEN y ELSE x
    IN  [y \in 1..h |->
            [x \in 1..w |->
                IF Pos(y, x) = 1 THEN 2 * (At(y, x, 2) - At(y, x, 1))
                ELSE IF Pos(y, x) = last THEN 2 * (At(y, x, last) - At(y, x, last - 1))
                ELSE At(y, x, Pos(y, x) + 1) - At(y, x, Pos(y, x) - 1)]]

\* np.mean(np.abs(np.gradient(gray_img)[axis])), sums being the channel sums
MeanAbsGradient(sums, axis) ==
    LET twice == np_gradient(sums, axis)
    IN  np_mean([y \in DOMAIN twice |-> [x \in DOMAIN twice[y] |-> Abs(twice[y][x])]], 6)

\* the five statistics of one channel
ChannelStatistics(channel_data) ==
    <<np_mean(channel_data, 1), np_std(channel_data, 1), np_median(channel_data),
      np_percentile(channel_data, 1), np_percentile(channel_data, 3)>>

\* mutant: the two gradient features change places
extract_features_from_pil_GradientsExchanged(pil_img) ==
    LET img_array == convert_RGB(pil_img)
        gray_img == ChannelSums(img_array)
    IN  ChannelStatistics(ChannelOf(img_array, 1))
        \o ChannelStatistics(ChannelOf(img_array, 2))
        \o ChannelStatistics(ChannelOf(img_array, 3))
        \o <<np_mean(gray_img, 3), np_std(gray_img, 3),
             MeanAbsGradient(gray_img, 1), MeanAbsGradient(gray_img, 0)>>

\* SimpleFeatureExtractor.extract_features_from_pil(pil_img)
extract_features_from_pil(pil_img) ==
    LET img_array == convert_RGB(pil_img)
        gray_img == ChannelSums(img_array)
    IN  ChannelStatistics(ChannelOf(img_array, 1))
        \o ChannelStatistics(ChannelOf(img_array, 2))
        \o ChannelStatistics(ChannelOf(img_array, 3))
        \o <<np_mean(gray_img, 3), np_std(gray_img, 3),
             MeanAbsGradient(gray_img, 0), MeanAbsGradient(gray_img, 1)>>

\* SimpleFeatureExtractor.extract_features_from_image(image_path): the same
\* text after Image.open; an error of Image.open is raised again
extract_features_from_image(file) ==
    IF ~file.decodable
    THEN Raise("UnidentifiedImageError", <<"cannot identify image file">>)
    ELSE [kind |-> "return", value |-> extract_features_from_pil(file.image)]

\* heights and widths of the images
Shapes == {<<2, 2>>, <<2, 3>>, <<3, 2>>}

FeatureColours == {BROWN, GREEN, WHITE}

GrayLevels == {0, 255}

FeatureImages ==
    UNION { { [mode |-> "RGB", rows |-> rows] :
                rows \in [1..shape[1] -> [1..shape[2] -> FeatureColours]] }
            \cup { [mode |-> "L", rows |-> rows] :
                rows \in [1..shape[1] -> [1..shape[2] -> GrayLevels]] } :
            shape \in Shapes }

FeatureFiles ==
    { [decodable |-> TRUE, image |-> img] : img \in FeatureImages }
    \cup { [decodable |-> FALSE, image |-> [mode |-> "RGB", rows |-> <<>>]] }

FeatureInit ==
    /\ REFERENCE_HISTOGRAMS = NoReferences
    /\ config = MergeDict(DEFAULT_CONFIG, EmptyDict)
    /\ call = Idle
    /\ ret = NoReturn
    /\ prev = NoPrev
    /\ artifact = "ok"
    /\ model_data = None
    /\ ensemble = None
    /\ scaler = None
    /\ loads = 0
    /\ requests = NoRequests
    /\ patients = PatientRows
    /\ cases = <<>>
    /\ AccountsInit
    /\ RecordsInit

ExtractFromImage(file) ==
    /\ call = Idle
    /\ call' = [op |-> "extract_features_from_image", file |-> file]
    /\ ret' = extract_features_from_image(file)
    /\ UNCHANGED <<REFERENCE_HISTOGRAMS, config, prev, artifact, model_data, ensemble,
                   scaler, loads, requests, database, accounts, records>>

ExtractFromPil(pil_img) ==
    /\ call = Idle
    /\ call' = [op |-> "extract_features_from_pil", file |-> [decodable |-> TRUE, image |-> pil_img]]
    /\ ret' = [kind |-> "return", value |-> extract_features_from_pil(pil_img)]
    /\ UNCHANGED <<REFERENCE_HISTOGRAMS, config, prev, artifact, model_data, ensemble,
                   scaler, loads, requests, database, accounts, records>>

FeatureNext ==
    \/ call = Idle /\ \E file \in FeatureFiles : ExtractFromImage(file)
    \/ call = Idle /\ \E pil_img \in FeatureImages : ExtractFromPil(pil_img)
    \/ Return

FeatureSpec == FeatureInit /\ [][FeatureNext]_vars

(***************************************************************************)
(* Properties of the feature extractor.                                    *)
(***************************************************************************)
ExtractCall ==
    /\ call.op \in {"extract_features_from_image", "extract_features_from_pil"}
    /\ call.file.decodable

Features == ret.value

\* the RGB pixel rows of the image of the call
ClaimPixels == convert_RGB(call.file.image)

\* twice the difference quotient of a at <<y, x>> between its neighbours in
\* direction <<dy, dx>>, the cell itself standing in for a neighbour that is
\* outside the array
ClaimDifference(a, y, x, dy, dx) ==
    LET py == Max2(y - dy, 1)
        px == Max2(x - dx, 1)
        ny == Min2(y + dy, Len(a))
        nx == Min2(x + dx, Len(a[1]))
        span == (ny - py) + (nx - px)
    IN  (2 \div span) * (a[ny][nx] - a[py][px])

\* the mean absolute difference of the gray image in direction <<dy, dx>>
ClaimMeanAbsDifference(dy, dx) ==
    LET sums == ChannelSums(ClaimPixels)
        total == SumOver([c \in Cells(sums) |-> Abs(ClaimDifference(sums, c[1], c[2], dy, dx))],
                         Cells(sums))
    IN  (total * FeatureScale) \div (Cardinality(Cells(sums)) * 6)

\* between neighbouring columns: along a row
ClaimBetweenColumns == ClaimMeanAbsDifference(0, 1)

\* between neighbouring rows: along a column
ClaimBetweenRows == ClaimMeanAbsDifference(1, 0)

\* 19 values: per channel R, G, B the mean, standard deviation, median, 25th
\* and 75th percentile, then the grayscale mean and standard deviation
FirstSeventeen ==
    /\ Len(Features) = 19
    /\ \A ch \in 1..3 :
           LET data == ChannelOf(ClaimPixels, ch)
               at == 5 * (ch - 1)
           IN  /\ Features[at + 1] = np_mean(data, 1)
               /\ Features[at + 2] = np_std(data, 1)
               /\ Features[at + 3] = np_percentile(data, 2)
               /\ Features[at + 4] = np_percentile(data, 1)
               /\ Features[at + 5] = np_percentile(data, 3)
    /\ Features[16] = np_mean(ChannelSums(ClaimPixels), 3)
    /\ Features[17] = np_std(ChannelSums(ClaimPixels), 3)

NoRow ==
    [exists |-> FALSE, patient |-> "", case_code |-> <<>>, created_by |-> "",
     status |-> "", is_deleted |-> FALSE, has_prediction |-> FALSE,
     has_recommendation |-> FALSE]

\* a row that was removed from a table of records
NoRecord ==
    [exists |-> FALSE, case |-> 0, document |-> 0, prediction |-> 0, status |-> "",
     is_deleted |-> FALSE]

\* the rows of a table of records that belong to the case
OfCase(table, pk) == { id \in DOMAIN table : table[id].exists /\ table[id].case = pk }

\* Case._base_manager.all(): every row of the table
Case_base_manager == { id \in DOMAIN cases : cases[id].exists }

\* mutant: the default manager shows the deleted rows
Case_objects_ShowsDeleted == Case_base_manager

\* Case.objects.all(): SoftDeleteManager.get_queryset hides the deleted rows
Case_objects == { id \in Case_base_manager : ~cases[id].is_deleted }

\* Case.objects.with_deleted()
Case_objects_with_deleted == Case_base_manager

\* Case.objects.deleted()
Case_objects_deleted == { id \in Case_base_manager : cases[id].is_deleted }

\* Patient.objects.all()
Patient_objects == { p \in DOMAIN patients : ~patients[p].is_deleted }

\* f"{count:03d}"
Format03d(count) ==
    IF count < 1000
    THEN <<count \div 100, (count \div 10) % 10, count % 10>>
    ELSE <<count \div 1000, (count \div 100) % 10, (count \div 10) % 10, count % 10>>

\* f"{self.patient.patient_code}-{count:03d}"
potential_code(patient, count) == <<patients[patient].patient_code, Format03d(count)>>

\* mutant: the cases of the patient are counted without the soft-deleted ones
case_code_for_CountsActive(patient) ==
    LET base_count == Cardinality({ id \in Case_objects : cases[id].patient = patient }) + 1
        free == { count \in base_count..(base_count + 99) :
                    ~\E id \in Case_objects :
                        /\ cases[id].case_code = potential_code(patient, count)
                        /\ ~cases[id].is_deleted }
    IN  IF free = {} THEN <<patients[patient].patient_code, <<"uuid">>>>
        ELSE potential_code(patient, CHOOSE count \in free : \A other \in free : count <= other)

\* Case.save of a row without case_code: the code it generates
case_code_for(patient) ==
    LET base_count == Cardinality({ id \in Case_base_manager : cases[id].patient = patient }) + 1
        free == { count \in base_count..(base_count + 99) :
                    ~\E id \in Case_objects :
                        /\ cases[id].case_code = potential_code(patient, count)
                        /\ ~cases[id].is_deleted }
    IN  IF free = {} THEN <<patients[patient].patient_code, <<"uuid">>>>
        ELSE potential_code(patient, CHOOSE count \in free : \A other \in free : count <= other)

\* Case.check_restore_conflicts
check_restore_conflicts(pk) ==
    IF \E id \in Case_objects :
           /\ cases[id].case_code = cases[pk].case_code
           /\ ~cases[id].is_deleted
           /\ id # pk
    THEN <<"case_code">>
    ELSE <<>>

\* mutant: every doctor's cases are in the queryset
get_queryset_AnyDoctor(user) ==
    IF Users[user].role # "doctor" THEN {}
    ELSE { id \in Case_objects : ~cases[id].is_deleted }

\* CaseViewSet.get_queryset, without query parameters
get_queryset(user) ==
    IF Users[user].role # "doctor" THEN {}
    ELSE { id \in Case_objects :
             /\ patients[cases[id].patient].assigned_doctor = user
             /\ ~cases[id].is_deleted }

\* IsAuthenticated and IsDoctor on an authenticated request
IsDoctor(user) == Users[user].role = "doctor"

Response(status, data) == [kind |-> "response", status |-> status, data |-> data]

\* Case.delete(): the soft delete of the row
Case_delete(pk) == [cases EXCEPT ![pk].is_deleted = TRUE]

\* Case.delete(): a table of records after the soft delete of the active
\* records of the case
Case_delete_cascade(table, pk) ==
    [id \in DOMAIN table |->
        IF id \in OfCase(table, pk) /\ ~table[id].is_deleted
        THEN [table[id] EXCEPT !.is_deleted = TRUE]
        ELSE table[id]]

\* Case.restore(): a table of records after the restore of the deleted
\* records of the case
Case_restore_cascade(table, pk) ==
    [id \in DOMAIN table |->
        IF id \in OfCase(table, pk) /\ table[id].is_deleted
        THEN [table[id] EXCEPT !.is_deleted = FALSE]
        ELSE table[id]]

\* on_delete=CASCADE: a table of records after the case left the database
Case_hard_delete_cascade(table, pk) ==
    [id \in DOMAIN table |-> IF id \in OfCase(table, pk) THEN NoRecord ELSE table[id]]

\* Case.restore(): the error it raises, or None
Case_restore_error(pk) ==
    IF ~cases[pk].is_deleted THEN <<"NotDeletedError">>
    ELSE IF check_restore_conflicts(pk) # <<>> THEN <<"RestoreConflictError", "case_code">>
    ELSE IF cases[pk].patient \notin DOMAIN patients THEN <<"RestoreConflictError", "patient">>
    ELSE IF patients[cases[pk].patient].is_deleted THEN <<"RestoreConflictError", "patient">>
    ELSE None

\* Case.hard_delete(): the row leaves the table
Case_hard_delete(pk) == [cases EXCEPT ![pk] = NoRow]

CaseInit ==
    /\ REFERENCE_HISTOGRAMS = NoReferences
    /\ config = MergeDict(DEFAULT_CONFIG, EmptyDict)
    /\ call = Idle
    /\ ret = NoReturn
    /\ prev = NoPrev
    /\ artifact = "ok"
    /\ model_data = None
    /\ ensemble = None
    /\ scaler = None
    /\ loads = 0
    /\ requests = NoRequests
    /\ patients = PatientRows
    /\ cases = <<>>
    /\ AccountsInit
    /\ RecordsInit

\* GET /cases/
CaseList(user) ==
    /\ call = Idle
    /\ call' = [op |-> "list", user |-> user]
    /\ ret' = IF ~IsDoctor(user) THEN Response(403, {}) ELSE Response(200, get_queryset(user))
    /\ UNCHANGED cases
    /\ UNCHANGED <<REFERENCE_HISTOGRAMS, config, prev, artifact, model_data, ensemble,
                   scaler, loads, requests, patients, accounts, records>>

\* GET /cases/{pk}/
CaseRetrieve(user, pk) ==
    /\ call = Idle
    /\ call' = [op |-> "retrieve", user |-> user, pk |-> pk]
    /\ ret' = IF ~IsDoctor(user) THEN Response(403, {})
              ELSE IF pk \notin get_queryset(user) THEN Response(404, {})
              ELSE Response(200, {cases[pk]})
    /\ UNCHANGED cases
    /\ UNCHANGED <<REFERENCE_HISTOGRAMS, config, prev, artifact, model_data, ensemble,
                   scaler, loads, requests, patients, accounts, records>>

\* POST /cases/ with patient and status
CaseCreate(user, patient, status) ==
    /\ call = Idle
    /\ call' = [op |-> "create", user |-> user, patient |-> patient, status |-> status]
    /\ IF ~IsDoctor(user)
       THEN ret' = Response(403, {}) /\ UNCHANGED cases
       ELSE IF patient \notin Patient_objects
       THEN ret' = Response(400, {"patient"}) /\ UNCHANGED cases
       ELSE IF patients[patient].assigned_doctor # user
       THEN ret' = Response(400, {"patient"}) /\ UNCHANGED cases
       ELSE /\ Len(cases) < MaxCases
            /\ cases' = Append(cases,
                   [exists |-> TRUE, patient |-> patient, case_code |-> case_code_for(patient),
                    created_by |-> user, status |-> status, is_deleted |-> FALSE,
                    has_prediction |-> FALSE, has_recommendation |-> FALSE])
            /\ ret' = Response(201, {Len(cases) + 1})
    /\ UNCHANGED <<REFERENCE_HISTOGRAMS, config, prev, artifact, model_data, ensemble,
                   scaler, loads, requests, patients, accounts, records>>

\* PUT and PATCH /cases/{pk}/ with status
CaseUpdate(user, pk, status) ==
    /\ call = Idle
    /\ call' = [op |-> "update", user |-> user, pk |-> pk, status |-> status]
    /\ IF ~IsDoctor(user)
       THEN ret' = Response(403, {}) /\ UNCHANGED cases
       ELSE IF pk \notin get_queryset(user)
       THEN ret' = Response(404, {}) /\ UNCHANGED cases
       ELSE /\ cases' = [cases EXCEPT ![pk].status = status]
            /\ ret' = Response(200, {pk})
    /\ UNCHANGED <<REFERENCE_HISTOGRAMS, config, prev, artifact, model_data, ensemble,
                   scaler, loads, requests, patients, accounts, records>>

\* DELETE /cases/{pk}/
CaseDestroy(user, pk) ==
    /\ call = Idle
    /\ call' = [op |-> "destroy", user |-> user, pk |-> pk]
    /\ IF ~IsDoctor(user)
       THEN ret' = Response(403, {}) /\ UNCHANGED <<cases, records>>
       ELSE IF pk \notin get_queryset(user)
       THEN ret' = Response(404, {}) /\ UNCHANGED <<cases, records>>
       ELSE IF cases[pk].is_deleted
       THEN ret' = Response(500, {"AlreadyDeletedError"}) /\ UNCHANGED <<cases, records>>
       ELSE /\ predictions' = Case_delete_cascade(predictions, pk)
            /\ recommendations' = Case_delete_cascade(recommendations, pk)
            /\ documents' = Case_delete_cascade(documents, pk)
            /\ cases' = Case_delete(pk)
            /\ ret' = Response(200, {})
    /\ UNCHANGED <<REFERENCE_HISTOGRAMS, config, prev, artifact, model_data, ensemble,
                   scaler, loads, requests, patients, accounts>>

\* GET /cases/deleted/
CaseListDeleted(user) ==
    /\ call = Idle
    /\ call' = [op |-> "list_deleted", user |-> user]
    /\ ret' = IF Users[user].role \notin {"doctor", "superadmin"} THEN Response(403, {})
              ELSE IF Users[user].role = "doctor"
              THEN Response(200, { id \in Case_objects_deleted :
                                     patients[cases[id].patient].assigned_doctor = user })
              ELSE Response(200, Case_objects_deleted)
    /\ UNCHANGED cases
    /\ UNCHANGED <<REFERENCE_HISTOGRAMS, config, prev, artifact, model_data, ensemble,
                   scaler, loads, requests, patients, accounts, records>>

\* POST /cases/{pk}/restore/
CaseRestore(user, pk) ==
    /\ call = Idle
    /\ call' = [op |-> "restore_case", user |-> user, pk |-> pk]
    /\ IF Users[user].role \notin {"doctor", "superadmin"}
       THEN ret' = Response(403, {}) /\ UNCHANGED <<cases, records>>
       ELSE IF pk \notin Case_objects_deleted
       THEN ret' = Response(404, {}) /\ UNCHANGED <<cases, records>>
       ELSE IF Users[user].role = "doctor" /\ patients[cases[pk].patient].assigned_doctor # user
       THEN ret' = Response(403, {}) /\ UNCHANGED <<cases, records>>
       ELSE IF Case_restore_error(pk) # None
       THEN ret' = Response(400, {Case_restore_error(pk)}) /\ UNCHANGED <<cases, records>>
       ELSE /\ cases' = [cases EXCEPT ![pk].is_deleted = FALSE]
            /\ predictions' = Case_restore_cascade(predictions, pk)
            /\ recommendations' = Case_restore_cascade(recommendations, pk)
            /\ documents' = Case_restore_cascade(documents, pk)
            /\ ret' = Response(200, {})
    /\ UNCHANGED <<REFERENCE_HISTOGRAMS, config, prev, artifact, model_data, ensemble,
                   scaler, loads, requests, patients, accounts>>

\* DELETE /cases/{pk}/permanent-delete/
CasePermanentDelete(user, pk) ==
    /\ call = Idle
    /\ call' = [op |-> "permanent_delete", user |-> user, pk |-> pk]
    /\ IF Users[user].role # "superadmin"
       THEN ret' = Response(403, {}) /\ UNCHANGED <<cases, records>>
       ELSE IF pk \notin Case_objects_with_deleted
       THEN ret' = Response(404, {}) /\ UNCHANGED <<cases, records>>
       ELSE /\ cases' = Case_hard_delete(pk)
            /\ predictions' = Case_hard_delete_cascade(predictions, pk)
            /\ recommendations' = Case_hard_delete_cascade(recommendations, pk)
            /\ documents' = Case_hard_delete_cascade(documents, pk)
            /\ ret' = Response(200, {})
    /\ UNCHANGED <<REFERENCE_HISTOGRAMS, config, prev, artifact, model_data, ensemble,
                   scaler, loads, requests, patients, accounts>>

\* primary keys and patient keys a request can name
CaseKeys == 1..MaxCases

PatientKeys == DOMAIN PatientRows \cup {"unknown"}

\* the status a request sets
CreateStatuses == {"draft"}

UpdateStatuses == {"cancelled"}

CaseNext ==
    \/ call = Idle /\ \E user \in DOMAIN Users : CaseList(user)
    \/ call = Idle /\ \E user \in DOMAIN Users, pk \in CaseKeys : CaseRetrieve(user, pk)
    \/ call = Idle /\ \E user \in DOMAIN Users, patient \in PatientKeys, status \in CreateStatuses :
           CaseCreate(user, patient, status)
    \/ call = Idle /\ \E user \in DOMAIN Users, pk \in CaseKeys, status \in UpdateStatuses :
           CaseUpdate(user, pk, status)
    \/ call = Idle /\ \E user \in DOMAIN Users, pk \in CaseKeys : CaseDestroy(user, pk)
    \/ call = Idle /\ \E user \in DOMAIN Users : CaseListDeleted(user)
    \/ call = Idle /\ \E user \in DOMAIN Users, pk \in CaseKeys : CaseRestore(user, pk)
    \/ call = Idle /\ \E user \in DOMAIN Users, pk \in CaseKeys : CasePermanentDelete(user, pk)
    \/ Return

CaseSpec == CaseInit /\ [][CaseNext]_vars

(***************************************************************************)
(* Properties of the cases.                                                *)
(***************************************************************************)
\* the rows that are soft-deleted
SoftDeleted == { id \in DOMAIN cases : cases[id].exists /\ cases[id].is_deleted }

\* a soft-deleted row is hidden by the default manager and kept by the base
\* manager; destroy leaves the row it deleted in the table; no list shows a
\* soft-deleted row and its retrieve by a doctor answers 404
SoftDeletedHidden ==
    /\ \A id \in SoftDeleted : id \notin Case_objects /\ id \in Case_base_manager
    /\ (call.op = "destroy" /\ ret.status = 200) => call.pk \in SoftDeleted
    /\ (call.op = "list" /\ ret.status = 200) => ret.data \cap SoftDeleted = {}
    /\ (call.op = "retrieve" /\ IsDoctor(call.user) /\ call.pk \in SoftDeleted) =>
           ret.status = 404

\* a create, delete or restore request that names another case, or none
OnOtherCase(id) ==
    /\ call' # Idle
    /\ call'.op \in {"create", "destroy", "restore_case"}
    /\ call'.op # "create" => call'.pk # id

\* C18: a soft-deleted case is still in storage with is_deleted = true, absent
\* from the default manager, from the case list and from retrieve (404), and
\* reachable through the base manager; create, delete and restore requests on
\* other cases leave it so.
C18_SoftDeletedStays ==
    [][/\ SoftDeletedHidden'
       /\ \A id \in SoftDeleted : OnOtherCase(id) => cases'[id] = cases[id]]_vars

\* after the soft delete of one case and the restore of another, the deleted
\* one is in the table and hidden from its doctor's list
C18_Witness ==
    /\ call.op = "list"
    /\ ret.status = 200
    /\ ret.data # {}
    /\ \E id \in SoftDeleted :
           /\ patients[cases[id].patient].assigned_doctor = call.user
           /\ id \notin ret.data
           /\ id \in Case_base_manager

\* a create request that inserted a row
Created == call.op = "create" /\ ret.status = 201

\* the row a create request inserted
NewCase == Len(cases)

\* the cases of the new case's patient that were there before it
Siblings == { id \in Case_base_manager \ {NewCase} : cases[id].patient = cases[NewCase].patient }

\* the code of the new case's patient with number n
ClaimCode(n) == <<patients[cases[NewCase].patient].patient_code, Format03d(n)>>

\* no active case other than the new one has the code with number n
ClaimFree(n) ==
    \A id \in Case_objects \ {NewCase} : cases[id].case_code # ClaimCode(n)

ActiveCodesDiffer ==
    \A a \in Case_objects : \A b \in Case_objects : a # b => cases[a].case_code # cases[b].case_code

StandardOps == {"list", "retrieve", "create", "update", "destroy"}

\* the active cases whose patient is assigned to the doctor
CasesOf(doctor) ==
    { id \in DOMAIN cases :
        /\ cases[id].exists
        /\ ~cases[id].is_deleted
        /\ patients[cases[id].patient].assigned_doctor = doctor }

\* what the claim says of a request on a standard endpoint: call and cases are
\* the request and the table before it, ret and after the response and the
\* table after it
ClaimedAnswer(request, response, before, after) ==
    IF Users[request.user].role # "doctor"
    THEN response.status = 403 /\ after = before
    ELSE CASE request.op = "list" ->
                  response.status = 200 /\ response.data = CasesOf(request.user) /\ after = before
           [] request.op = "create" ->
                  IF request.patient \in DOMAIN patients
                     /\ patients[request.patient].assigned_doctor = request.user
                  THEN /\ response.status = 201
                       /\ Len(after) = Len(before) + 1
                       /\ after[Len(after)].patient = request.patient
                       /\ \A id \in DOMAIN before : after[id] = before[id]
                  ELSE response.status = 400 /\ after = before
           [] request.op = "retrieve" ->
                  IF request.pk \in CasesOf(request.user)
                  THEN response.status = 200 /\ response.data = {before[request.pk]} /\ after = before
                  ELSE response.status = 404 /\ after = before
           [] request.op \in {"update", "destroy"} ->
                  IF request.pk \in CasesOf(request.user)
                  THEN /\ response.status = 200
                       /\ \A id \in DOMAIN before : id # request.pk => after[id] = before[id]
                  ELSE response.status = 404 /\ after = before

\* C20: on the standard case endpoints a doctor lists, retrieves, updates and
\* deletes only cases whose patient is assigned to them; a request on another
\* doctor's case answers 404 and changes nothing, a create for a patient that
\* is not assigned to the doctor answers 400, and a nurse or a superadmin gets
\* 403 on every standard endpoint.
C20_DoctorScope ==
    [][(call = Idle /\ call' # Idle /\ call'.op \in StandardOps) =>
           ClaimedAnswer(call', ret', cases, cases')]_vars

\* a doctor's delete of a case of the other doctor's patient, answered 404
C20_Witness ==
    /\ call.op = "destroy"
    /\ call.user = "doc1"
    /\ call.pk \in CasesOf("doc2")
    /\ ret.status = 404

(***************************************************************************)
(* The user accounts: password reset and archive delete.                   *)
(***************************************************************************)
\* forgot_password: generate_reset_token(expires_in_hours=24)
expires_in_hours == 24

\* ResetPasswordSerializer: min_length of new_password and its confirmation
min_length == 6

\* the step of the clock, in hours
ClockStep == expires_in_hours \div 2

\* a row that is not in the table
NoUser ==
    [exists |-> FALSE, email |-> "", role |-> "", password |-> None,
     reset_token |-> None, reset_token_expires |-> None]

NoArchive == [exists |-> FALSE, original_id |-> "", email |-> "", role |-> "", password |-> None]

\* User.objects.filter(email=email)
User_objects_filter(email) == { id \in DOMAIN users : users[id].exists /\ users[id].email = email }

\* User.objects.get(email=email), when there is one
User_objects_get(email) == CHOOSE id \in User_objects_filter(email) : TRUE

\* the n-th token of secrets.token_urlsafe, and a point in time
token_urlsafe(n) == <<"token", n>>

DateTime(hours) == <<"hours", hours>>

\* User.generate_reset_token: secrets.token_urlsafe gives a token that was
\* never given before, here the next one
generate_reset_token(id) ==
    [users EXCEPT ![id].reset_token = token_urlsafe(tokens + 1),
                  ![id].reset_token_expires = DateTime(now + expires_in_hours)]

\* mutant: an expired token is accepted
verify_reset_token_NoExpiry(id, token) == users[id].reset_token = token

\* User.verify_reset_token
verify_reset_token(id, token) ==
    IF users[id].reset_token # token
    THEN FALSE
    ELSE IF users[id].reset_token_expires = None \/ now > users[id].reset_token_expires[2]
    THEN FALSE
    ELSE TRUE

\* User.clear_reset_token on a row
clear_reset_token(row) == [row EXCEPT !.reset_token = None, !.reset_token_expires = None]

\* User.set_password on a row
set_password(row, raw) == [row EXCEPT !.password = make_password(raw)]

\* the fields of a reset request that fail their own validation
FieldErrors(new_password, new_password_confirm) ==
    {f \in {"new_password"} : Len(new_password) < min_length}
    \cup {f \in {"new_password_confirm"} : Len(new_password_confirm) < min_length}

\* ResetPasswordSerializer.validate: the fields in error, {} when valid
ResetPasswordSerializer_validate(email, token, new_password, new_password_confirm) ==
    IF new_password # new_password_confirm
    THEN {"new_password"}
    ELSE IF User_objects_filter(email) = {}
    THEN {"email"}
    ELSE IF ~verify_reset_token(User_objects_get(email), token)
    THEN {"token"}
    ELSE {}

\* IsAuthenticated and IsSuperAdmin of the user endpoints
IsSuperAdmin(requester) == users[requester].exists /\ users[requester].role = "superadmin"

\* User.delete: the user table after the hard delete
User_delete(pk) == [users EXCEPT ![pk] = NoUser]

\* the free row of the archive that UserArchive.objects.create fills
NextArchive == Len(user_archive) + 1

\* User.delete: the archive after UserArchive.objects.create
UserArchive_create(pk) ==
    Append(user_archive,
           [exists |-> TRUE, original_id |-> pk, email |-> users[pk].email,
            role |-> users[pk].role, password |-> users[pk].password])

UserInit ==
    /\ REFERENCE_HISTOGRAMS = NoReferences
    /\ config = MergeDict(DEFAULT_CONFIG, EmptyDict)
    /\ call = Idle
    /\ ret = NoReturn
    /\ prev = NoPrev
    /\ artifact = "ok"
    /\ model_data = None
    /\ ensemble = None
    /\ scaler = None
    /\ loads = 0
    /\ requests = NoRequests
    /\ patients = PatientRows
    /\ cases = <<>>
    /\ AccountsInit
    /\ RecordsInit

\* POST /users/forgot-password/
ForgotPassword(email, email_sent) ==
    /\ call = Idle
    /\ call' = [op |-> "forgot_password", email |-> email]
    /\ IF User_objects_filter(email) = {}
       THEN ret' = Response(400, {"email"}) /\ UNCHANGED <<users, tokens, issued>>
       ELSE /\ tokens < MaxTokens
            /\ users' = generate_reset_token(User_objects_get(email))
            /\ tokens' = tokens + 1
            /\ issued' = Append(issued, [user |-> User_objects_get(email),
                                         token |-> token_urlsafe(tokens + 1), at |-> now])
            /\ ret' = IF email_sent THEN Response(200, {}) ELSE Response(500, {})
    /\ UNCHANGED <<REFERENCE_HISTOGRAMS, config, prev, artifact, model_data, ensemble,
                   scaler, loads, requests, database, records, user_archive, now>>

\* POST /users/reset-password/
ResetPassword(email, token, new_password, new_password_confirm) ==
    /\ call = Idle
    /\ call' = [op |-> "reset_password", email |-> email, token |-> token,
                new_password |-> new_password]
    /\ IF FieldErrors(new_password, new_password_confirm) # {}
       THEN ret' = Response(400, FieldErrors(new_password, new_password_confirm)) /\ UNCHANGED users
       ELSE IF ResetPasswordSerializer_validate(email, token, new_password, new_password_confirm) # {}
       THEN /\ ret' = Response(400, ResetPasswordSerializer_validate(email, token, new_password,
                                                                    new_password_confirm))
            /\ UNCHANGED users
       ELSE /\ users' = [users EXCEPT ![User_objects_get(email)] =
                                clear_reset_token(set_password(@, new_password))]
            /\ ret' = Response(200, {})
    /\ UNCHANGED <<REFERENCE_HISTOGRAMS, config, prev, artifact, model_data, ensemble,
                   scaler, loads, requests, database, records, user_archive, now, tokens, issued>>

\* DELETE /users/{id}/
UserDestroy(requester, pk) ==
    /\ call = Idle
    /\ call' = [op |-> "user_destroy", user |-> requester, pk |-> pk]
    /\ IF ~IsSuperAdmin(requester)
       THEN ret' = Response(403, {}) /\ UNCHANGED <<users, user_archive>>
       ELSE IF pk \notin DOMAIN users \/ ~users[pk].exists
       THEN ret' = Response(404, {}) /\ UNCHANGED <<users, user_archive>>
       ELSE /\ Len(user_archive) < MaxArchive
            /\ user_archive' = UserArchive_create(pk)
            /\ users' = User_delete(pk)
            /\ ret' = Response(200, {NextArchive})
    /\ UNCHANGED <<REFERENCE_HISTOGRAMS, config, prev, artifact, model_data, ensemble,
                   scaler, loads, requests, database, records, now, tokens, issued>>

\* POST /users/{archive_id}/restore/
RestoreArchived(requester, pk) ==
    /\ call = Idle
    /\ call' = [op |-> "restore_archived", user |-> requester, pk |-> pk]
    /\ IF ~IsSuperAdmin(requester)
       THEN ret' = Response(403, {}) /\ UNCHANGED <<users, user_archive>>
       ELSE IF pk \notin DOMAIN user_archive \/ ~user_archive[pk].exists
       THEN ret' = Response(404, {}) /\ UNCHANGED <<users, user_archive>>
       ELSE IF User_objects_filter(user_archive[pk].email) # {}
       THEN ret' = Response(400, {"email"}) /\ UNCHANGED <<users, user_archive>>
       ELSE /\ users' = [users EXCEPT ![user_archive[pk].original_id] =
                            [exists |-> TRUE, email |-> user_archive[pk].email,
                             role |-> user_archive[pk].role,
                             password |-> user_archive[pk].password,
                             reset_token |-> None, reset_token_expires |-> None]]
            /\ user_archive' = [user_archive EXCEPT ![pk] = NoArchive]
            /\ ret' = Response(200, {user_archive[pk].original_id})
    /\ UNCHANGED <<REFERENCE_HISTOGRAMS, config, prev, artifact, model_data, ensemble,
                   scaler, loads, requests, database, records, now, tokens, issued>>

\* DELETE /users/{archive_id}/permanent-delete/
DeleteArchived(requester, pk) ==
    /\ call = Idle
    /\ call' = [op |-> "delete_archived", user |-> requester, pk |-> pk]
    /\ IF ~IsSuperAdmin(requester)
       THEN ret' = Response(403, {}) /\ UNCHANGED user_archive
       ELSE IF pk \notin DOMAIN user_archive \/ ~user_archive[pk].exists
       THEN ret' = Response(404, {}) /\ UNCHANGED user_archive
       ELSE /\ user_archive' = [user_archive EXCEPT ![pk] = NoArchive]
            /\ ret' = Response(200, {})
    /\ UNCHANGED <<REFERENCE_HISTOGRAMS, config, prev, artifact, model_data, ensemble,
                   scaler, loads, requests, database, records, users, now, tokens, issued>>

\* timezone.now() moves on while no request runs
Tick ==
    /\ call = Idle
    /\ now + ClockStep <= MaxTicks * ClockStep
    /\ now' = now + ClockStep
    /\ UNCHANGED <<REFERENCE_HISTOGRAMS, config, call, ret, prev, artifact, model_data, ensemble,
                   scaler, loads, requests, database, records, users, user_archive, tokens, issued>>

\* what a request can carry: 0 is a token that was never generated
EmailInputs == {"nurse1", "doc1", "nobody"}

TokenInputs == { token_urlsafe(n) : n \in 0..MaxTokens }

PasswordInputs == {"NewPassword123", "abc"}

Requesters == {"admin1", "doc1"}

UserKeys == {"nurse1", "admin1", "nobody"}

ArchiveKeys == 1..MaxArchive

UserNext ==
    \/ call = Idle /\ \E email \in EmailInputs : \E email_sent \in BOOLEAN :
           ForgotPassword(email, email_sent)
    \/ call = Idle /\ \E email \in EmailInputs : \E token \in TokenInputs :
           \E new_password \in PasswordInputs : \E new_password_confirm \in PasswordInputs :
               ResetPassword(email, token, new_password, new_password_confirm)
    \/ call = Idle /\ \E requester \in Requesters : \E pk \in UserKeys : UserDestroy(requester, pk)
    \/ call = Idle /\ \E requester \in Requesters : \E pk \in ArchiveKeys :
           RestoreArchived(requester, pk)
    \/ call = Idle /\ \E requester \in Requesters : \E pk \in ArchiveKeys :
           DeleteArchived(requester, pk)
    \/ Tick
    \/ Return

UserSpec == UserInit /\ [][UserNext]_vars

(***************************************************************************)
(* Properties of the password reset.                                       *)
(***************************************************************************)
\* the tokens a reset request for the email would be accepted with now
Acceptable(email) ==
    { token \in TokenInputs :
        ResetPasswordSerializer_validate(email, token, "NewPassword123", "NewPassword123") = {} }

\* the tokens generated for the user, oldest first
IssuedTo(id) == SelectSeq(issued, LAMBDA e : e.user = id)

\* the token is the last one generated for the user and its 24 hours are not over
LatestUnexpired(id, token) ==
    /\ IssuedTo(id) # <<>>
    /\ IssuedTo(id)[Len(IssuedTo(id))].token = token
    /\ now <= IssuedTo(id)[Len(IssuedTo(id))].at + 24

\* what a reset request with these inputs did
ResetDid(email, token, new_password) ==
    IF ret'.status = 200
    THEN /\ User_objects_filter(email) # {}
         /\ LatestUnexpired(User_objects_get(email), token)
         /\ check_password(new_password, users'[User_objects_get(email)].password)
         /\ users'[User_objects_get(email)].reset_token = None
         /\ users'[User_objects_get(email)].reset_token_expires = None
         /\ token \notin Acceptable(email)'
    ELSE /\ ret'.status = 400
         /\ users' = users

\* a reset request and what it did
ResetStep ==
    \E email \in EmailInputs : \E token \in TokenInputs : \E new_password \in PasswordInputs :
        /\ call' = [op |-> "reset_password", email |-> email, token |-> token,
                    new_password |-> new_password]
        /\ ResetDid(email, token, new_password)

\* C21: a user has at most one acceptable reset token at any time; a reset
\* succeeds only with the token generated last for that user and not expired,
\* it then changes the password and clears token and expiry, so that the
\* token is rejected afterwards; a newer forgot-password request makes the
\* earlier token unacceptable; a rejected reset leaves the password as it was.
C21_OneAcceptableToken ==
    [][/\ \A email \in EmailInputs : Cardinality(Acceptable(email)') <= 1
       /\ (call = Idle /\ call' # Idle /\ call'.op = "reset_password") => ResetStep
       /\ \A email \in EmailInputs : \A token \in Acceptable(email)' \ Acceptable(email) :
              /\ call'.op = "forgot_password"
              /\ call'.email = email
              /\ token = token_urlsafe(tokens')
              /\ Acceptable(email)' = {token}]_vars

\* a reset that succeeded with the second token generated for the user, after
\* time went by
C21_Witness ==
    /\ call.op = "reset_password"
    /\ ret.status = 200
    /\ Len(IssuedTo(User_objects_get(call.email))) >= 2
    /\ now > 0
    /\ check_password(call.new_password, users[User_objects_get(call.email)].password)
    /\ users[User_objects_get(call.email)].reset_token = None

\* C22: after a superadmin's DELETE /users/{id}/ answered 200, the user row is
\* still in the users table, with is_deleted = true.
C22_UserRowKept ==
    (call.op = "user_destroy" /\ ret.status = 200) =>
        /\ users[call.pk].exists
        /\ "is_deleted" \in DOMAIN users[call.pk]
        /\ users[call.pk].is_deleted

(***************************************************************************)
(* Properties of the risk score of a confident prediction.                 *)
(***************************************************************************)
\* the bands of the docstring of _calculate_risk_score, in points
DocumentedBand ==
    "HER2_0" :> <<15, 20>> @@ "HER2_1+" :> <<35, 45>> @@ "HER2_2+" :> <<65, 75>>
    @@ "HER2_3+" :> <<85, 95>>

\* the call has the class and the confidence that predict derives from the
\* probabilities, and the confidence is at least 0.9
HighConfidencePrediction ==
    /\ RiskCall
    /\ call.predicted_class = HER2_CLASSES[argmax(call.probabilities)]
    /\ call.confidence = call.probabilities[argmax(call.probabilities)]
    /\ 10 * call.confidence >= 9 * ProbUnits

\* C23: for a prediction with confidence >= 0.9 the risk score is inside the
\* band documented for the predicted class: 15-20 for HER2_0, 35-45 for
\* HER2_1+, 65-75 for HER2_2+, 85-95 for HER2_3+.
C23_ScoreInDocumentedBand ==
    HighConfidencePrediction =>
        /\ ret.value >= DocumentedBand[call.predicted_class][1] * ProbUnits
        /\ ret.value <= DocumentedBand[call.predicted_class][2] * ProbUnits

(***************************************************************************)
(* The records of a case: predictions with their documents (apps/ai),      *)
(* recommendations (apps/recommendation), and the soft delete of a patient *)
(* (apps/patients).  A row of a table of records names its case; a         *)
(* prediction names its document, a recommendation its prediction.         *)
(***************************************************************************)
\* the default manager of a table of records: the rows that are not deleted
Active(table) == { id \in DOMAIN table : table[id].exists /\ ~table[id].is_deleted }

\* _can_access_case of the prediction and the recommendation views
_can_access_case(user, pk) ==
    \/ Users[user].role = "superadmin"
    \/ Users[user].role = "doctor" /\ patients[cases[pk].patient].assigned_doctor = user
    \/ Users[user].role = "nurse" /\ patients[cases[pk].patient].created_by = user
    \/ cases[pk].created_by = user

\* what the request of a prediction uploads: nothing, a picture the validator
\* rejects, a file the predictor fails on, a tissue image
Uploads == {"missing", "not_medical", "unreadable", "tissue"}

\* POST /cases/{case_id}/predictions/predict/
PredictionPredict(user, case_id, image) ==
    /\ call = Idle
    /\ call' = [op |-> "predict_case", user |-> user, pk |-> case_id, image |-> image]
    /\ IF image = "missing"
       THEN ret' = Response(400, {"image"}) /\ UNCHANGED <<cases, records>>
       ELSE IF case_id \notin Case_objects
       THEN ret' = Response(500, {"Http404"}) /\ UNCHANGED <<cases, records>>
       ELSE IF ~_can_access_case(user, case_id)
       THEN ret' = Response(404, {}) /\ UNCHANGED <<cases, records>>
       ELSE IF image = "not_medical"
       THEN ret' = Response(400, {"validation_details"}) /\ UNCHANGED <<cases, records>>
       ELSE IF image = "unreadable"
       THEN ret' = Response(500, {"Prediction failed"}) /\ UNCHANGED <<cases, records>>
       ELSE /\ Len(predictions) < MaxPredictions
            /\ documents' = Append(documents, [NoRecord EXCEPT !.exists = TRUE, !.case = case_id])
            /\ predictions' = Append(predictions,
                   [NoRecord EXCEPT !.exists = TRUE, !.case = case_id,
                                    !.document = Len(documents) + 1])
            /\ cases' = [cases EXCEPT
                   ![case_id].has_prediction = TRUE,
                   ![case_id].status = IF @ \in {"draft", "in_progress"} THEN "in_progress" ELSE @]
            /\ ret' = Response(201, {Len(predictions) + 1})
            /\ UNCHANGED recommendations
    /\ UNCHANGED <<REFERENCE_HISTOGRAMS, config, prev, artifact, model_data, ensemble,
                   scaler, loads, requests, patients, accounts>>

\* the draft of the case and the prediction that generate writes over
existing_draft(case_id, prediction_id) ==
    { id \in Active(recommendations) :
        /\ recommendations[id].case = case_id
        /\ recommendations[id].prediction = prediction_id
        /\ recommendations[id].status = "draft" }

\* POST /cases/{case_id}/recommendations/generate/
RecommendationGenerate(user, case_id, prediction_id, llm_answers) ==
    /\ call = Idle
    /\ call' = [op |-> "generate", user |-> user, pk |-> case_id, prediction |-> prediction_id]
    /\ IF case_id \notin Case_objects
       THEN ret' = Response(404, {}) /\ UNCHANGED <<cases, records>>
       ELSE IF ~_can_access_case(user, case_id)
       THEN ret' = Response(404, {}) /\ UNCHANGED <<cases, records>>
       ELSE IF prediction_id \notin Active(predictions) \cap OfCase(predictions, case_id)
       THEN ret' = Response(500, {"Http404"}) /\ UNCHANGED <<cases, records>>
       ELSE IF ~llm_answers
       THEN ret' = Response(500, {"Failed to generate recommendation"})
            /\ UNCHANGED <<cases, records>>
       ELSE /\ IF existing_draft(case_id, prediction_id) # {}
               THEN /\ UNCHANGED recommendations
                    /\ ret' = Response(200, existing_draft(case_id, prediction_id))
               ELSE /\ Len(recommendations) < MaxRecommendations
                    /\ recommendations' = Append(recommendations,
                           [NoRecord EXCEPT !.exists = TRUE, !.case = case_id,
                                            !.prediction = prediction_id, !.status = "draft"])
                    /\ ret' = Response(201, {Len(recommendations) + 1})
            /\ cases' = [cases EXCEPT
                   ![case_id].has_recommendation = TRUE,
                   ![case_id].status = IF cases[case_id].has_prediction THEN "complete" ELSE @]
            /\ UNCHANGED <<predictions, documents>>
    /\ UNCHANGED <<REFERENCE_HISTOGRAMS, config, prev, artifact, model_data, ensemble,
                   scaler, loads, requests, patients, accounts>>

\* on_delete=CASCADE: the predictions that leave with the document, and the
\* recommendations that leave with those predictions
PredictionsOfDocument(document) ==
    { id \in DOMAIN predictions : predictions[id].exists /\ predictions[id].document = document }

RecommendationsOf(preds) ==
    { id \in DOMAIN recommendations :
        recommendations[id].exists /\ recommendations[id].prediction \in preds }

\* a table of records without the rows
Without(table, rows) == [id \in DOMAIN table |-> IF id \in rows THEN NoRecord ELSE table[id]]

\* DELETE /cases/{case_id}/predictions/{pk}/
PredictionDestroy(user, case_id, pk) ==
    /\ call = Idle
    /\ call' = [op |-> "prediction_destroy", user |-> user, pk |-> case_id, prediction |-> pk]
    /\ IF pk \notin Active(predictions) \cap OfCase(predictions, case_id)
       THEN ret' = Response(404, {}) /\ UNCHANGED records
       ELSE IF ~_can_access_case(user, case_id)
       THEN ret' = Response(404, {}) /\ UNCHANGED records
       ELSE /\ documents' = Without(documents, {predictions[pk].document})
            /\ predictions' =
                   Without(predictions, PredictionsOfDocument(predictions[pk].document) \cup {pk})
            /\ recommendations' =
                   Without(recommendations,
                           RecommendationsOf(PredictionsOfDocument(predictions[pk].document)
                                             \cup {pk}))
            /\ ret' = Response(204, {})
    /\ UNCHANGED <<REFERENCE_HISTOGRAMS, config, prev, artifact, model_data, ensemble,
                   scaler, loads, requests, database, accounts>>

\* DELETE /cases/{case_id}/recommendations/{pk}/delete/
RecommendationDelete(user, case_id, pk) ==
    /\ call = Idle
    /\ call' = [op |-> "recommendation_delete", user |-> user, pk |-> case_id,
                recommendation |-> pk]
    /\ IF pk \notin Active(recommendations) \cap OfCase(recommendations, case_id)
       THEN ret' = Response(404, {}) /\ UNCHANGED records
       ELSE IF ~_can_access_case(user, case_id)
       THEN ret' = Response(404, {}) /\ UNCHANGED records
       ELSE /\ recommendations' = Without(recommendations, {pk})
            /\ ret' = Response(204, {})
            /\ UNCHANGED <<predictions, documents>>
    /\ UNCHANGED <<REFERENCE_HISTOGRAMS, config, prev, artifact, model_data, ensemble,
                   scaler, loads, requests, database, accounts>>

\* PatientViewSet.destroy: the case table after the loop over the active
\* cases of the patient
Patient_destroy_cases(pk) ==
    [id \in DOMAIN cases |->
        IF id \in Case_objects /\ cases[id].patient = pk
        THEN [cases[id] EXCEPT !.is_deleted = TRUE]
        ELSE cases[id]]

\* DELETE /patients/{pk}/
PatientDestroy(user, pk) ==
    /\ call = Idle
    /\ call' = [op |-> "patient_destroy", user |-> user, pk |-> pk]
    /\ IF Users[user].role = "doctor"
       THEN ret' = Response(403, {}) /\ UNCHANGED <<patients, cases>>
       ELSE IF Users[user].role # "nurse" \/ pk \notin Patient_objects
       THEN ret' = Response(404, {}) /\ UNCHANGED <<patients, cases>>
       ELSE /\ cases' = Patient_destroy_cases(pk)
            /\ patients' = [patients EXCEPT ![pk].is_deleted = TRUE]
            /\ ret' = Response(200, {})
    /\ UNCHANGED <<REFERENCE_HISTOGRAMS, config, prev, artifact, model_data, ensemble,
                   scaler, loads, requests, accounts, records>>

WorkflowInit ==
    /\ REFERENCE_HISTOGRAMS = NoReferences
    /\ config = MergeDict(DEFAULT_CONFIG, EmptyDict)
    /\ call = Idle
    /\ ret = NoReturn
    /\ prev = NoPrev
    /\ artifact = "ok"
    /\ model_data = None
    /\ ensemble = None
    /\ scaler = None
    /\ loads = 0
    /\ requests = NoRequests
    /\ patients = PatientRows
    /\ cases = <<>>
    /\ AccountsInit
    /\ RecordsInit

\* who sends the requests, and the keys a request can name
WorkflowUsers == {"doc1", "doc2"}

WorkflowCases == 1..2

PredictionKeys == 1..MaxPredictions

RecommendationKeys == 1..MaxRecommendations

\* requests that create cases, predict, generate recommendations and delete
\* predictions and recommendations
WorkflowNext ==
    \/ call = Idle /\ Len(cases) < Cardinality(WorkflowCases) /\ \E patient \in {"pat1"} :
           CaseCreate("doc1", patient, "draft")
    \/ call = Idle /\ \E user \in WorkflowUsers : \E pk \in WorkflowCases : \E image \in Uploads :
           PredictionPredict(user, pk, image)
    \/ call = Idle /\ \E user \in WorkflowUsers : \E pk \in WorkflowCases :
           \E prediction \in PredictionKeys : \E llm_answers \in BOOLEAN :
               RecommendationGenerate(user, pk, prediction, llm_answers)
    \/ call = Idle /\ \E user \in WorkflowUsers : \E pk \in WorkflowCases :
           \E prediction \in PredictionKeys : PredictionDestroy(user, pk, prediction)
    \/ call = Idle /\ \E user \in WorkflowUsers : \E pk \in WorkflowCases :
           \E recommendation \in RecommendationKeys : RecommendationDelete(user, pk, recommendation)
    \/ Return

WorkflowSpec == WorkflowInit /\ [][WorkflowNext]_vars

\* the same requests, the soft delete and restore of cases and the soft
\* delete of patients
PatientNext ==
    \/ WorkflowNext
    \/ call = Idle /\ \E pk \in WorkflowCases : CaseDestroy("doc1", pk)
    \/ call = Idle /\ \E pk \in WorkflowCases : CaseRestore("doc1", pk)
    \/ call = Idle /\ \E user \in {"nurse1", "doc1", "admin1"} : \E pk \in PatientKeys :
           PatientDestroy(user, pk)

PatientSpec == WorkflowInit /\ [][PatientNext]_vars

(***************************************************************************)
(* Properties of the records of a case.                                    *)
(***************************************************************************)
\* the cases of the patient, and the active records of a case
CasesOfPatient(patient) == { id \in Case_base_manager : cases[id].patient = patient }

ActiveRecords(table, pk) == Active(table) \cap OfCase(table, pk)

\* C24: after the soft delete of a patient through the patients API, the
\* patient, every case of the patient and every prediction, recommendation
\* and document of those cases is marked is_deleted; no active child record
\* remains under a deleted patient.
C24_PatientDeleteCascades ==
    \A patient \in DOMAIN patients :
        patients[patient].is_deleted =>
            \A id \in CasesOfPatient(patient) :
                /\ cases[id].is_deleted
                /\ ActiveRecords(predictions, id) = {}
                /\ ActiveRecords(recommendations, id) = {}
                /\ ActiveRecords(documents, id) = {}

\* the status the workflow gives a case with these records
WorkflowStatus(pk) ==
    IF ActiveRecords(predictions, pk) = {} THEN "draft"
    ELSE IF ActiveRecords(recommendations, pk) = {} THEN "in_progress"
    ELSE "complete"

\* C25: after any sequence of predict, generate-recommendation,
\* prediction-delete and recommendation-delete requests, every active case
\* that is not cancelled has status draft when it has no active prediction,
\* in_progress when it has a prediction and no recommendation, complete when
\* it has both.
C25_StatusFollowsRecords ==
    \A id \in Case_objects :
        cases[id].status # "cancelled" => cases[id].status = WorkflowStatus(id)

(***************************************************************************)
(* Properties of the uncertainty gate under the default configuration.     *)
(***************************************************************************)
\* ln 4 in millionths, rounded down: the greatest entropy of four classes
Ln4 == 1386294

\* C26: under the default configuration (entropy_thresh = 2.5) the
\* uncertainty gate never fires for a probability vector of four classes,
\* whose entropy is at most ln 4; the status Unknown occurs only when the
\* caller passes a configuration whose threshold is below ln 4.
C26_NoUnknownByDefault ==
    Classified =>
        /\ Len(call.probs) = 4
        /\ calculate_entropy(call.probs) <= Ln4
        /\ EntropyMax >= Ln4 => ~("status" \in DOMAIN ret.value /\ ret.value.status = "Unknown")
        /\ ("status" \in DOMAIN ret.value /\ ret.value.status = "Unknown") =>
               /\ call.op = "safe_predict"
               /\ ~call.config.is_none
               /\ EntropyMax < Ln4

\* safe_predict without a config on a vector whose entropy is above 1.3:
\* Success
C26_Witness ==
    /\ call.op = "safe_predict"
    /\ call.config.is_none
    /\ calculate_entropy(call.probs) > 1300000
    /\ ret.value.status = "Success"
====
